---- MODULE Spec2Model ----
(***************************************************************************)
(* A model of the Elang tree-walking interpreter (src/elang).              *)
(*                                                                         *)
(* The specifications share the variables below.                           *)
(*   SpecExpr     one operator / unary / index node applied to operand     *)
(*                values drawn from bounded sets (the pure part of the     *)
(*                evaluator).                                              *)
(*   Spec         the evaluator as a machine over environments, the host   *)
(*                call stack of eval_* handlers, function values and the   *)
(*                list heap; the program text is the nondeterministic      *)
(*                choice of the next statement evaluated at the current    *)
(*                position. Assignments, definitions, calls and returns.   *)
(*   SpecCtl      the same machine on if / while blocks, break, continue,  *)
(*                calls and returns.                                       *)
(*   SpecOperand  the same machine on binary operators whose operands are  *)
(*                expressions with effects.                                *)
(*   SpecFor      the same machine on for-range loops.                     *)
(*   SpecForBody  the same machine on for-range loops whose bodies assign  *)
(*                to the loop variable and to variables of the bounds.     *)
(*   SpecModule   the same machine on use and on .name / .name(args).      *)
(*   SpecLoad     the same machine on the loading of file modules,         *)
(*                statement by statement, modules that use themselves      *)
(*                included.                                                *)
(*   SpecLex      Lexer.tokenize applied to every source of a bounded       *)
(*                length over a small alphabet.                            *)
(*   SpecRepl     the interactive prompt: lines run one after another by   *)
(*                one evaluator.                                           *)
(*   SpecList     the same machine on list methods, index assignment and   *)
(*                lists reached through several names.                     *)
(*   SpecParse    Parser.parse, parse_statement and parse_expression       *)
(*                applied to token lists of bounded families.              *)
(*                                                                         *)
(* Values are records of one shape [tag, n, d, s]:                         *)
(*   int    n          float  n/d (a rational in lowest terms, d > 0)      *)
(*   bool   n in 0..1  str    s, a sequence of one-character strings       *)
(*   none              list / map   n = index into the heap                *)
(*   fn / lambda       n = index into fns                                  *)
(*   native            a host callable bound in a built-in module          *)
(*   module            n = frame of the module's environment               *)
(*   unbound           marks a name absent from a frame's dictionary       *)
(***************************************************************************)
EXTENDS Integers, Sequences, FiniteSets, TLC

VARIABLES frames, stack, fns, heap, out, outcome, node, result

vars == <<frames, stack, fns, heap, out, outcome, node, result>>

(***************************** bounds **************************************)
MaxFrames == 3
MaxFns == 2
MaxDepth == 4
MaxForDepth == 3
MaxCallDepth == 3
MaxList == 2
MaxObjs == 2
MaxOut == 1
MaxInt == 2
FloatDigits == 6

(***************************** values **************************************)
IntV(i) == [tag |-> "int", n |-> i, d |-> 1, s |-> <<>>]
BoolV(b) == [tag |-> "bool", n |-> IF b THEN 1 ELSE 0, d |-> 1, s |-> <<>>]
StrV(cs) == [tag |-> "str", n |-> 0, d |-> 1, s |-> cs]
NoneV == [tag |-> "none", n |-> 0, d |-> 1, s |-> <<>>]
ListV(r) == [tag |-> "list", n |-> r, d |-> 1, s |-> <<>>]
MapV(r) == [tag |-> "map", n |-> r, d |-> 1, s |-> <<>>]
FnV(f) == [tag |-> "fn", n |-> f, d |-> 1, s |-> <<>>]
LambdaV(f) == [tag |-> "lambda", n |-> f, d |-> 1, s |-> <<>>]
NativeV == [tag |-> "native", n |-> 0, d |-> 1, s |-> <<>>]
ModuleV(e) == [tag |-> "module", n |-> e, d |-> 1, s |-> <<>>]
Unbound == [tag |-> "unbound", n |-> 0, d |-> 1, s |-> <<>>]

Abs(i) == IF i < 0 THEN -i ELSE i

RECURSIVE Gcd(_, _)
Gcd(a, b) == IF b = 0 THEN a ELSE Gcd(b, a % b)

\* a float as the rational p/q in lowest terms with a positive denominator
FloatV(p, q) ==
    LET g == Gcd(Abs(p), Abs(q))
        sg == IF q < 0 THEN -1 ELSE 1
    IN [tag |-> "float", n |-> (sg * p) \div g, d |-> Abs(q) \div g, s |-> <<>>]

IsNum(v) == v.tag \in {"int", "float", "bool"}
IsIntLike(v) == v.tag \in {"int", "bool"}


(***************************** host conversions ****************************)
\* The heap holds the mutable containers: a list keeps its elements in items,
\* a map its keys and values in insertion order.
ListObj(items) == [kind |-> "list", keys |-> <<>>, items |-> items]
MapObj(ks, vs) == [kind |-> "map", keys |-> ks, items |-> vs]

\* bool(value): the host truthiness used by if, while, and, or, not
PyBool(v, h) ==
    CASE v.tag = "bool" -> v.n = 1
      [] v.tag = "none" -> FALSE
      [] v.tag \in {"int", "float"} -> v.n # 0
      [] v.tag = "str" -> Len(v.s) > 0
      [] v.tag \in {"list", "map"} -> Len(h[v.n].items) > 0
      [] OTHER -> TRUE

DigitChars == <<"0", "1", "2", "3", "4", "5", "6", "7", "8", "9">>
IsDigit(c) == \E i \in 1..10 : DigitChars[i] = c
DigitVal(c) == (CHOOSE i \in 1..10 : DigitChars[i] = c) - 1

RECURSIVE NatChars(_)
NatChars(i) == IF i < 10 THEN <<DigitChars[i + 1]>>
               ELSE NatChars(i \div 10) \o <<DigitChars[(i % 10) + 1]>>

IntChars(i) == IF i < 0 THEN <<"-">> \o NatChars(-i) ELSE NatChars(i)

\* the decimal digits of r/q (0 <= r < q), as repr(float) prints them when the
\* expansion ends within FloatDigits digits
RECURSIVE FracChars(_, _, _)
FracChars(r, q, k) ==
    IF r = 0 \/ k = 0 THEN <<>>
    ELSE <<DigitChars[((r * 10) \div q) + 1]>> \o FracChars((r * 10) % q, q, k - 1)

FloatChars(v) ==
    LET a == Abs(v.n)
        frac == FracChars(a % v.d, v.d, FloatDigits)
    IN (IF v.n < 0 THEN <<"-">> ELSE <<>>) \o NatChars(a \div v.d) \o <<".">>
       \o (IF frac = <<>> THEN <<"0">> ELSE frac)

RECURSIVE JoinChars(_, _)
JoinChars(parts, sep) ==
    IF parts = <<>> THEN <<>>
    ELSE IF Len(parts) = 1 THEN parts[1]
    ELSE parts[1] \o sep \o JoinChars(Tail(parts), sep)

\* str(value) and repr(value) of the host; containers hold scalars only
PyScalarStr(v, fs) ==
    CASE v.tag = "int" -> IntChars(v.n)
      [] v.tag = "float" -> FloatChars(v)
      [] v.tag = "bool" -> IF v.n = 1 THEN <<"T", "r", "u", "e">>
                           ELSE <<"F", "a", "l", "s", "e">>
      [] v.tag = "none" -> <<"N", "o", "n", "e">>
      [] v.tag = "str" -> v.s
      [] v.tag = "fn" -> <<"<", "f", "n", " ", fs[v.n].name, ">">>
      [] v.tag = "lambda" -> <<"<", "l", "a", "m", "b", "d", "a", " ", "(">>
                             \o JoinChars([i \in 1..Len(fs[v.n].params) |->
                                              <<fs[v.n].params[i]>>], <<",", " ">>)
                             \o <<")", ">">>
      [] v.tag = "module" -> <<"<", "m", "o", "d", "u", "l", "e", ">">>
      [] OTHER -> <<"<", "f", "u", "n", "c", "t", "i", "o", "n", ">">>

PyRepr(v, fs) == IF v.tag = "str" THEN <<"'">> \o v.s \o <<"'">> ELSE PyScalarStr(v, fs)

PyStr(v, h, fs) ==
    CASE v.tag = "list" ->
           <<"[">> \o JoinChars([i \in 1..Len(h[v.n].items) |->
                                   PyRepr(h[v.n].items[i], fs)], <<",", " ">>) \o <<"]">>
      [] v.tag = "map" ->
           <<"{">> \o JoinChars([i \in 1..Len(h[v.n].items) |->
                                   PyRepr(h[v.n].keys[i], fs) \o <<":", " ">>
                                   \o PyRepr(h[v.n].items[i], fs)], <<",", " ">>) \o <<"}">>
      [] OTHER -> PyScalarStr(v, fs)

\* int(value): [ok, v] or the host exception it raises
RECURSIVE DigitsVal(_, _)
DigitsVal(cs, acc) ==
    IF cs = <<>> THEN acc ELSE DigitsVal(Tail(cs), acc * 10 + DigitVal(Head(cs)))

AllDigits(cs) == Len(cs) > 0 /\ \A i \in 1..Len(cs) : IsDigit(cs[i])

PyInt(v) ==
    CASE v.tag \in {"int", "bool"} -> [ok |-> TRUE, v |-> v.n, exc |-> ""]
      [] v.tag = "float" ->
           [ok |-> TRUE, exc |-> "",
            v |-> IF v.n >= 0 THEN v.n \div v.d ELSE -((-v.n) \div v.d)]
      [] v.tag = "str" ->
           IF AllDigits(v.s) THEN [ok |-> TRUE, v |-> DigitsVal(v.s, 0), exc |-> ""]
           ELSE IF Len(v.s) > 1 /\ v.s[1] \in {"-", "+"} /\ AllDigits(Tail(v.s))
           THEN [ok |-> TRUE, exc |-> "",
                 v |-> IF v.s[1] = "-" THEN -DigitsVal(Tail(v.s), 0)
                       ELSE DigitsVal(Tail(v.s), 0)]
           ELSE [ok |-> FALSE, v |-> 0, exc |-> "ValueError"]
      [] OTHER -> [ok |-> FALSE, v |-> 0, exc |-> "TypeError"]

(***************************** host operators ******************************)
\* How one evaluation ends: a value (a freshly built list carries its elements
\* in fresh, to be placed in the heap), a RuntimeError_ with its message, or a
\* host exception of class exc (kind "exc"). line and column are the position
\* an error carries: every raise of the evaluator is RuntimeError_(msg), which
\* leaves both at the default 0 of RuntimeError_.__init__.
RetVal(v) ==
    [kind |-> "value", val |-> v, exc |-> "", fresh |-> <<>>, line |-> 0, column |-> 0]
RetFresh(items) ==
    [kind |-> "value", val |-> ListV(0), exc |-> "", fresh |-> items, line |-> 0, column |-> 0]
Raise(kind, exc) ==
    [kind |-> kind, val |-> NoneV, exc |-> exc, fresh |-> <<>>, line |-> 0, column |-> 0]
Pending ==
    [kind |-> "pending", val |-> NoneV, exc |-> "", fresh |-> <<>>, line |-> 0, column |-> 0]

\* left == right of the host on scalars
ScalarEq(l, r) ==
    IF IsNum(l) /\ IsNum(r) THEN l.n * r.d = r.n * l.d
    ELSE l.tag = r.tag /\ l.n = r.n /\ l.s = r.s

PyEq(l, r, h) ==
    IF l.tag = "list" /\ r.tag = "list"
    THEN LET a == h[l.n].items
             b == h[r.n].items
         IN Len(a) = Len(b) /\ \A i \in 1..Len(a) : ScalarEq(a[i], b[i])
    ELSE IF l.tag = "map" /\ r.tag = "map"
    THEN LET a == h[l.n]
             b == h[r.n]
         IN Len(a.keys) = Len(b.keys)
            /\ \A i \in 1..Len(a.keys) : \E j \in 1..Len(b.keys) :
                   ScalarEq(a.keys[i], b.keys[j]) /\ ScalarEq(a.items[i], b.items[j])
    ELSE ScalarEq(l, r)

CharCode(c) ==
    CASE c = " " -> 32 [] c = "'" -> 39 [] c = "+" -> 43 [] c = "-" -> 45
      [] c = "." -> 46 [] IsDigit(c) -> 48 + DigitVal(c)
      [] c = "a" -> 97 [] c = "b" -> 98 [] OTHER -> 120

RECURSIVE StrOrd(_, _)
StrOrd(a, b) ==
    IF a = <<>> THEN (IF b = <<>> THEN "eq" ELSE "lt")
    ELSE IF b = <<>> THEN "gt"
    ELSE IF CharCode(Head(a)) < CharCode(Head(b)) THEN "lt"
    ELSE IF CharCode(Head(a)) > CharCode(Head(b)) THEN "gt"
    ELSE StrOrd(Tail(a), Tail(b))

\* the ordering of two scalars: "lt", "eq", "gt", or "TypeError"
ScalarOrd(l, r) ==
    IF IsNum(l) /\ IsNum(r)
    THEN (IF l.n * r.d < r.n * l.d THEN "lt"
          ELSE IF l.n * r.d > r.n * l.d THEN "gt" ELSE "eq")
    ELSE IF l.tag = "str" /\ r.tag = "str" THEN StrOrd(l.s, r.s)
    ELSE "TypeError"

RECURSIVE ListOrd(_, _)
ListOrd(a, b) ==
    IF a = <<>> THEN (IF b = <<>> THEN "eq" ELSE "lt")
    ELSE IF b = <<>> THEN "gt"
    ELSE IF ScalarEq(Head(a), Head(b)) THEN ListOrd(Tail(a), Tail(b))
    ELSE ScalarOrd(Head(a), Head(b))

PyOrd(l, r, h) ==
    IF l.tag = "list" /\ r.tag = "list" THEN ListOrd(h[l.n].items, h[r.n].items)
    ELSE ScalarOrd(l, r)

Compare(op, l, r, h) ==
    LET o == PyOrd(l, r, h)
    IN IF o = "TypeError" THEN Raise("exc", "TypeError")
       ELSE RetVal(BoolV(CASE op = "<" -> o = "lt"
                           [] op = ">" -> o = "gt"
                           [] op = "<=" -> o \in {"lt", "eq"}
                           [] OTHER -> o \in {"gt", "eq"}))

\* a number as the result of an operator on two numbers: an int when both
\* operands are int or bool, else a float
NumRes(l, r, p, q) == IF IsIntLike(l) /\ IsIntLike(r) THEN IntV(p \div q) ELSE FloatV(p, q)

\* a % b of the host for integers, b # 0: the result has the sign of b
PyMod(a, b) == IF b > 0 THEN a % b ELSE -((-a) % (-b))

RECURSIVE IntPow(_, _)
IntPow(b, e) == IF e = 0 THEN 1 ELSE b * IntPow(b, e - 1)

RECURSIVE Repeat(_, _)
Repeat(xs, k) == IF k <= 0 THEN <<>> ELSE xs \o Repeat(xs, k - 1)

\* left ** right for numbers whose exponent is a whole number
PyPow(l, r) ==
    LET e == r.n \div r.d
    IN IF e >= 0 THEN RetVal(NumRes(l, r, IntPow(l.n, e), IntPow(l.d, e)))
       ELSE IF l.n = 0 THEN Raise("exc", "ZeroDivisionError")
       ELSE RetVal(FloatV(IntPow(l.d, -e), IntPow(l.n, -e)))

(***************************** expression nodes ****************************)
\* try/except of a handler: a host exception of a caught class becomes a
\* RuntimeError_, any other one leaves the handler as it is
Except(res, classes) ==
    IF res.kind = "exc" /\ res.exc \in classes THEN Raise("RuntimeError_", res.exc)
    ELSE res

ArithOps == {"+", "-", "*", "/", "%", "**"}
CmpOps == {"==", "!=", "<", ">", "<=", ">="}
LogicOps == {"and", "or"}
BinOps == ArithOps \cup CmpOps \cup LogicOps

\* the body of the try block of eval_BinOpNode on the two operand values
BinOpTry(op, left, right, h, fs) ==
    CASE op = "+" ->
           IF left.tag = "str" \/ right.tag = "str"
           THEN RetVal(StrV(PyStr(left, h, fs) \o PyStr(right, h, fs)))
           ELSE IF IsNum(left) /\ IsNum(right)
           THEN RetVal(NumRes(left, right, left.n * right.d + right.n * left.d,
                              left.d * right.d))
           ELSE IF left.tag = "list" /\ right.tag = "list"
           THEN RetFresh(h[left.n].items \o h[right.n].items)
           ELSE Raise("exc", "TypeError")
      [] op = "-" ->
           IF IsNum(left) /\ IsNum(right)
           THEN RetVal(NumRes(left, right, left.n * right.d - right.n * left.d,
                              left.d * right.d))
           ELSE Raise("exc", "TypeError")
      [] op = "*" ->
           IF IsNum(left) /\ IsNum(right)
           THEN RetVal(NumRes(left, right, left.n * right.n, left.d * right.d))
           ELSE IF left.tag = "str" /\ IsIntLike(right)
           THEN RetVal(StrV(Repeat(left.s, right.n)))
           ELSE IF IsIntLike(left) /\ right.tag = "str"
           THEN RetVal(StrV(Repeat(right.s, left.n)))
           ELSE IF left.tag = "list" /\ IsIntLike(right)
           THEN RetFresh(Repeat(h[left.n].items, right.n))
           ELSE IF IsIntLike(left) /\ right.tag = "list"
           THEN RetFresh(Repeat(h[right.n].items, left.n))
           ELSE Raise("exc", "TypeError")
      [] op = "/" ->
           IF PyEq(right, IntV(0), h) THEN Raise("RuntimeError_", "Division by zero")
           ELSE IF IsNum(left) /\ IsNum(right)
           THEN RetVal(FloatV(left.n * right.d, left.d * right.n))
           ELSE Raise("exc", "TypeError")
      [] op = "%" ->
           IF IsNum(left) /\ IsNum(right)
           THEN (IF right.n = 0 THEN Raise("exc", "ZeroDivisionError")
                 ELSE RetVal(NumRes(left, right,
                                    PyMod(left.n * right.d, right.n * left.d),
                                    left.d * right.d)))
           \* a format string without a conversion accepts only a mapping-like
           \* argument and is returned as it is
           ELSE IF left.tag = "str" /\ right.tag \in {"list", "map"} THEN RetVal(left)
           ELSE Raise("exc", "TypeError")
      [] op = "**" ->
           IF IsNum(left) /\ IsNum(right) THEN PyPow(left, right)
           ELSE Raise("exc", "TypeError")
      [] op = "==" -> RetVal(BoolV(PyEq(left, right, h)))
      [] op = "!=" -> RetVal(BoolV(~PyEq(left, right, h)))
      [] op \in {"<", ">", "<=", ">="} -> Compare(op, left, right, h)
      [] op = "and" -> RetVal(BoolV(PyBool(left, h) /\ PyBool(right, h)))
      [] op = "or" -> RetVal(BoolV(PyBool(left, h) \/ PyBool(right, h)))
      [] OTHER -> Raise("RuntimeError_", "Unknown operator")

\* Evaluator.eval_BinOpNode once both operands are values
BinOpValue(op, left, right, h, fs) == Except(BinOpTry(op, left, right, h, fs), {"TypeError"})

\* Evaluator.eval_UnaryOpNode once the operand is a value
UnaryOpValue(op, val, h) ==
    CASE op = "-" ->
           IF IsIntLike(val) THEN RetVal(IntV(-val.n))
           ELSE IF val.tag = "float" THEN RetVal(FloatV(-val.n, val.d))
           ELSE Raise("exc", "TypeError")
      [] op = "not" -> RetVal(BoolV(~PyBool(val, h)))
      [] OTHER -> Raise("RuntimeError_", "Unknown unary op")

\* target[i] of the host on a sequence of length n: negative i counts from the end
SeqGet(items, i) ==
    LET n == Len(items)
    IN IF 0 <= i /\ i < n THEN [ok |-> TRUE, at |-> i + 1]
       ELSE IF -n <= i /\ i < 0 THEN [ok |-> TRUE, at |-> n + i + 1]
       ELSE [ok |-> FALSE, at |-> 0]

Hashable(v) == v.tag \notin {"list", "map"}

\* the body of the try block of eval_IndexGetNode
IndexGetTry(target, index, h) ==
    IF target.tag = "map"
    THEN (IF ~Hashable(index) THEN Raise("exc", "TypeError")
          ELSE IF \E i \in 1..Len(h[target.n].keys) : ScalarEq(h[target.n].keys[i], index)
          THEN RetVal(h[target.n].items[CHOOSE i \in 1..Len(h[target.n].keys) :
                                           ScalarEq(h[target.n].keys[i], index)])
          ELSE Raise("exc", "KeyError"))
    ELSE LET i == PyInt(index)
         IN IF ~i.ok THEN Raise("exc", i.exc)
            ELSE IF target.tag = "list"
            THEN (IF SeqGet(h[target.n].items, i.v).ok
                  THEN RetVal(h[target.n].items[SeqGet(h[target.n].items, i.v).at])
                  ELSE Raise("exc", "IndexError"))
            ELSE IF target.tag = "str"
            THEN (IF SeqGet(target.s, i.v).ok
                  THEN RetVal(StrV(<<target.s[SeqGet(target.s, i.v).at]>>))
                  ELSE Raise("exc", "IndexError"))
            ELSE Raise("exc", "TypeError")

\* Evaluator.eval_IndexGetNode once target and index are values
IndexGetValue(target, index, h) ==
    Except(IndexGetTry(target, index, h), {"IndexError", "TypeError", "KeyError"})

(***************************** environments ********************************)
\* the identifiers programs of the model use, the names _setup_builtins binds
\* in the global environment, the names of the math module modelled, and the
\* names modules are bound under
Names == {"x", "f"}
BuiltinNames == {"__builtin_len__", "__builtin_help__"}
MathNames == {"sqrt", "abs"}
ModuleNames == {"math", "m", "l", "s", "a", "b"}
AllNames == Names \cup BuiltinNames \cup MathNames \cup ModuleNames

NoVars == [nm \in AllNames |-> Unbound]

\* Environment.__init__: an empty dictionary and the parent (0 is None)
Environment(parent) == [vars |-> NoVars, parent |-> parent]

\* Environment.get that looks in the frame's own dictionary only
EnvGet_LocalOnly(fr, e, name) ==
    IF fr[e].vars[name] # Unbound THEN RetVal(fr[e].vars[name])
    ELSE Raise("RuntimeError_", "Undefined variable")

\* Environment.get: the nearest binding walking outward
RECURSIVE EnvGet(_, _, _)
EnvGet(fr, e, name) ==
    IF fr[e].vars[name] # Unbound THEN RetVal(fr[e].vars[name])
    ELSE IF fr[e].parent # 0 THEN EnvGet(fr, fr[e].parent, name)
    ELSE Raise("RuntimeError_", "Undefined variable")

\* the frame Environment.get finds the name in, 0 if it is bound nowhere
RECURSIVE Binder(_, _, _)
Binder(fr, e, name) ==
    IF fr[e].vars[name] # Unbound THEN e
    ELSE IF fr[e].parent # 0 THEN Binder(fr, fr[e].parent, name)
    ELSE 0

\* Environment.set
EnvSet(fr, e, name, value) == [fr EXCEPT ![e].vars[name] = value]

\* Environment.assign that rebinds the nearest existing binding of the name
EnvAssign_Rebind(fr, e, name, value) ==
    IF Binder(fr, e, name) = 0 THEN [fr EXCEPT ![e].vars[name] = value]
    ELSE [fr EXCEPT ![Binder(fr, e, name)].vars[name] = value]

\* Environment.assign
EnvAssign(fr, e, name, value) == [fr EXCEPT ![e].vars[name] = value]

\* Evaluator.__init__ and _setup_builtins: the global environment
GlobalEnv ==
    [vars |-> [nm \in AllNames |-> IF nm \in BuiltinNames THEN BoolV(TRUE) ELSE Unbound],
     parent |-> 0]

\* the environment eval_UseNode builds for the built-in module math
MathEnv ==
    [vars |-> [nm \in AllNames |-> IF nm \in MathNames THEN NativeV ELSE Unbound],
     parent |-> 0]

\* a function value's record: EushaFunction / EushaLambda; the body of a lambda
\* of the model is the identifier it returns, the body of a function is the
\* statements the program runs while its call is on the stack
FnRec(kind, name, params, env) ==
    [kind |-> kind, name |-> name, params |-> params, env |-> env, body |-> ""]

(***************************** SpecExpr ************************************)
\* The node most recently dispatched by Evaluator.eval with its operand values,
\* and how its evaluation ended. env is the environment the node was evaluated
\* in; at is the environment a call made, or the frame a compound assignment
\* read its variable from (0 for none); step is the step value of a for-range.
Node(kind, op, name, env, left, right) ==
    [kind |-> kind, op |-> op, name |-> name, env |-> env, left |-> left, right |-> right,
     at |-> 0, step |-> NoneV]

NoNode == Node("none", "", "", 0, NoneV, NoneV)

\* operand strings: empty, a letter, a numeral, a signed numeral
ExprStrings == {<<>>, <<"a">>, <<"1">>, <<"-", "1">>}

\* the containers, functions and module the operands refer to
ExprHeap == <<ListObj(<<IntV(1), IntV(2)>>), ListObj(<<>>),
              MapObj(<<StrV(<<"a">>)>>, <<IntV(1)>>)>>
ExprFns == <<FnRec("fn", "f", <<>>, 1), FnRec("lambda", "", <<"x">>, 1)>>

ExprValues ==
    {IntV(i) : i \in -MaxInt..MaxInt} \cup {FloatV(0, 1), FloatV(1, 2)}
    \cup {BoolV(TRUE), BoolV(FALSE), NoneV} \cup {StrV(cs) : cs \in ExprStrings}
    \cup {ListV(1), ListV(2), MapV(3), FnV(1), LambdaV(2), NativeV, ModuleV(2)}

\* a power with a fractional exponent has no rational (or no real) value
Representable(op, left, right) == ~(op = "**" /\ IsNum(right) /\ right.d # 1)

ExprNodes ==
    {Node("BinOp", op, "", 1, l, r) : op \in BinOps, l \in ExprValues, r \in ExprValues}
    \cup {Node("UnaryOp", op, "", 1, v, NoneV) : op \in {"-", "not"}, v \in ExprValues}
    \cup {Node("IndexGet", "", "", 1, t, i) : t \in ExprValues, i \in ExprValues}

InitExpr ==
    /\ frames = <<[GlobalEnv EXCEPT !.vars["f"] = FnV(1)], MathEnv>>
    /\ stack = <<>>
    /\ fns = ExprFns
    /\ heap = ExprHeap
    /\ out = 0
    /\ outcome = "running"
    /\ node \in {nd \in ExprNodes : Representable(nd.op, nd.left, nd.right)}
    /\ result = Pending

BinOpStep ==
    /\ node.kind = "BinOp" /\ result = Pending
    /\ result' = BinOpValue(node.op, node.left, node.right, heap, fns)
    /\ UNCHANGED <<frames, stack, fns, heap, out, outcome, node>>

UnaryOpStep ==
    /\ node.kind = "UnaryOp" /\ result = Pending
    /\ result' = UnaryOpValue(node.op, node.left, heap)
    /\ UNCHANGED <<frames, stack, fns, heap, out, outcome, node>>

IndexGetStep ==
    /\ node.kind = "IndexGet" /\ result = Pending
    /\ result' = IndexGetValue(node.left, node.right, heap)
    /\ UNCHANGED <<frames, stack, fns, heap, out, outcome, node>>

NextExpr == BinOpStep \/ UnaryOpStep \/ IndexGetStep

SpecExpr == InitExpr /\ [][NextExpr]_vars

(***************************** operand expressions *************************)
\* The operand expressions of the statements of Spec: a literal, an identifier,
\* a list literal, a lambda whose body is an identifier, say(literal) used as
\* an expression, and name.push(literal).
Expr(e, v, name, items, params) ==
    [e |-> e, v |-> v, name |-> name, items |-> items, params |-> params]
Lit(v) == Expr("lit", v, "", <<>>, <<>>)
Ident(name) == Expr("ident", NoneV, name, <<>>, <<>>)
ListLit(items) == Expr("list", NoneV, "", items, <<>>)
LambdaE(params, body) == Expr("lambda", NoneV, body, <<>>, params)
SayE(v) == Expr("say", v, "", <<>>, <<>>)
PushE(name, v) == Expr("push", v, name, <<>>, <<>>)
MapLit(ks, vs) == Expr("map", NoneV, "", vs, ks)

\* the evaluator's store as one value, and the store after an evaluation with
\* the way the evaluation ended
Store(fr, fs, h, o) == [frames |-> fr, fns |-> fs, heap |-> h, out |-> o]
Done(res, st) == [res |-> res, st |-> st]

\* .push that inserts the argument at the front of the list
MethodPush_Front(obj, arg, st) ==
    IF obj.tag = "list"
    THEN Done(RetVal(obj),
              [st EXCEPT !.heap[obj.n].items = <<arg>> \o st.heap[obj.n].items])
    ELSE Done(Raise("RuntimeError_", "Unknown method"), st)

\* the list part of eval_MethodCallNode for .push on the receiver obj
MethodPush(obj, arg, st) ==
    IF obj.tag = "list"
    THEN Done(RetVal(obj),
              [st EXCEPT !.heap[obj.n].items = Append(st.heap[obj.n].items, arg)])
    ELSE Done(Raise("RuntimeError_", "Unknown method"), st)

\* Evaluator.eval on an operand expression in environment env
Eval(x, env, st) ==
    CASE x.e = "lit" -> Done(RetVal(x.v), st)
      [] x.e = "ident" -> Done(EnvGet(st.frames, env, x.name), st)
      [] x.e = "list" ->
           Done(RetVal(ListV(Len(st.heap) + 1)),
                [st EXCEPT !.heap = Append(st.heap, ListObj(x.items))])
      [] x.e = "lambda" ->
           Done(RetVal(LambdaV(Len(st.fns) + 1)),
                [st EXCEPT !.fns = Append(st.fns, [FnRec("lambda", "", x.params, env)
                                                   EXCEPT !.body = x.name])])
      [] x.e = "say" -> Done(RetVal(NoneV), [st EXCEPT !.out = st.out + 1])
      [] x.e = "map" ->
           Done(RetVal(MapV(Len(st.heap) + 1)),
                [st EXCEPT !.heap = Append(st.heap, MapObj(x.params, x.items))])
      [] OTHER ->
           LET obj == EnvGet(st.frames, env, x.name)
           IN IF obj.kind # "value" THEN Done(obj, st) ELSE MethodPush(obj.val, x.v, st)

\* a freshly built list is placed in the heap
Settle(d) ==
    IF d.res.kind = "value" /\ d.res.val = ListV(0)
    THEN Done(RetVal(ListV(Len(d.st.heap) + 1)),
              [d.st EXCEPT !.heap = Append(d.st.heap, ListObj(d.res.fresh))])
    ELSE d

(***************************** Spec: the evaluator machine ******************)
\* A context is one handler of the host call stack that holds a block open:
\*   run    Evaluator.run, called by run_source, on the program's block
\*   call   _call_function evaluating the body of a user function
\*   if     eval_IfNode evaluating its then- or else-block
\*   while  eval_WhileNode evaluating its body inside try/except
\*   for    eval_ForRangeNode evaluating its body inside try/except
\* env is the environment the block's statements are evaluated in, dest the
\* name an enclosing assignment binds the call's value to ("" for none; the
\* loop variable of a for), mark the names env's own dictionary held when the
\* block was entered, rng the values of a for-range still to come and done the
\* values its variable was bound to so far.
Ctx(kind, env, fn, dest) ==
    [kind |-> kind, env |-> env, fn |-> fn, dest |-> dest, mark |-> {},
     rng |-> <<>>, done |-> <<>>]

Bound(fr, e) == {nm \in AllNames : fr[e].vars[nm] # Unbound}

LitValues == {IntV(0), IntV(1)}
OperandExprs ==
    {Lit(v) : v \in LitValues} \cup {Ident(nm) : nm \in Names}
    \cup {SayE(IntV(1))} \cup {PushE(nm, IntV(1)) : nm \in Names}

Init ==
    /\ frames = <<GlobalEnv>>
    /\ stack = <<Ctx("run", 1, 0, "")>>
    /\ fns = <<>>
    /\ heap = <<>>
    /\ out = 0
    /\ outcome = "running"
    /\ node = NoNode
    /\ result = Pending

Running == outcome = "running" /\ stack # <<>>
cur == stack[Len(stack)].env
store == Store(frames, fns, heap, out)

\* the values and the store stay within the bounds of the model
ValueInBounds(v) ==
    /\ v.tag \in {"int", "float"} => Abs(v.n) <= MaxInt /\ v.d <= 2
    /\ Len(v.s) <= 2
InBounds(st) ==
    /\ Len(st.frames) <= MaxFrames
    /\ Len(st.fns) <= MaxFns
    /\ Len(st.heap) <= MaxObjs
    /\ st.out <= MaxOut
    /\ \A r \in 1..Len(st.heap) : Len(st.heap[r].items) <= MaxList
    /\ \A e \in 1..Len(st.frames) : \A nm \in Names : ValueInBounds(st.frames[e].vars[nm])

\* run_source's except clauses: what the driver reports for an exception of
\* class exc that leaves evaluator.run
Report(exc) ==
    CASE exc \in {"LexerError", "ParseError", "RuntimeError_"} -> exc
      [] exc = "KeyboardInterrupt" -> "Interrupted"
      [] exc = "RecursionError" -> "RecursionError"
      [] OTHER -> "InternalError"

\* run_file: sys.exit(0 if success else 1) once run_source returned
ExitCode == IF outcome = "ok" THEN 0 ELSE 1

ExcClass(res) == IF res.kind = "RuntimeError_" THEN "RuntimeError_" ELSE res.exc

\* the store after the statement; an exception leaves every handler on the
\* stack (none catches it) and reaches run_source
Finish(d, nd) ==
    /\ InBounds(d.st)
    /\ node' = nd
    /\ result' = d.res
    /\ frames' = d.st.frames
    /\ fns' = d.st.fns
    /\ heap' = d.st.heap
    /\ out' = d.st.out
    /\ IF d.res.kind = "value"
       THEN UNCHANGED <<stack, outcome>>
       ELSE stack' = <<>> /\ outcome' = Report(ExcClass(d.res))

\* env.assign(name, value) after the value evaluated
AssignTo(d, env, name) ==
    IF d.res.kind = "value"
    THEN Done(d.res, [d.st EXCEPT !.frames = EnvAssign(d.st.frames, env, name, d.res.val)])
    ELSE d

eval_AssignNode(name, x) ==
    /\ Running
    /\ LET d == Eval(x, cur, store)
       IN Finish(AssignTo(d, cur, name), Node("Assign", "", name, cur, d.res.val, NoneV))

\* the try block of eval_CompoundAssignNode
CompoundTry(op, current, right, h, fs) ==
    IF op \in {"+", "-", "*", "/"} THEN BinOpTry(op, current, right, h, fs)
    ELSE Raise("RuntimeError_", "Unknown compound operator")

eval_CompoundAssignNode(name, op, x) ==
    /\ Running
    /\ LET current == EnvGet(frames, cur, name)
           d == Eval(x, cur, store)
           r == IF current.kind # "value" THEN Done(current, store)
                ELSE IF d.res.kind # "value" THEN d
                ELSE Settle(Done(Except(CompoundTry(op, current.val, d.res.val,
                                                    d.st.heap, d.st.fns),
                                        {"TypeError"}), d.st))
       IN Finish(AssignTo(r, cur, name),
                 [Node("CompoundAssign", op, name, cur, current.val, d.res.val)
                    EXCEPT !.at = Binder(frames, cur, name)])

\* eval_FunctionDefNode whose function keeps a copy of the environment as it
\* is at the definition
eval_FunctionDefNode_Snapshot(name, params) ==
    /\ Running
    /\ LET f == Len(fns) + 1
           st == [store EXCEPT !.fns = Append(fns, FnRec("fn", name, params, Len(frames) + 1)),
                               !.frames = EnvSet(Append(frames, frames[cur]), cur, name, FnV(f))]
       IN Finish(Done(RetVal(NoneV), st),
                 Node("FunctionDef", "", name, cur, FnV(f), NoneV))

\* Evaluator.eval_FunctionDefNode
eval_FunctionDefNode(name, params) ==
    /\ Running
    /\ LET f == Len(fns) + 1
           st == [store EXCEPT !.fns = Append(fns, FnRec("fn", name, params, cur)),
                               !.frames = EnvSet(frames, cur, name, FnV(f))]
       IN Finish(Done(RetVal(NoneV), st),
                 Node("FunctionDef", "", name, cur, FnV(f), NoneV))

\* zip(fn.params, args) bound by call_env.set
RECURSIVE BindParams(_, _, _, _)
BindParams(fr, e, params, args) ==
    IF params = <<>> \/ args = <<>> THEN fr
    ELSE BindParams(EnvSet(fr, e, Head(params), Head(args)), e, Tail(params), Tail(args))

\* _call_function whose call environment hangs off the global environment
CallEnv_Global(fn, args, st) ==
    IF fn.tag \notin {"fn", "lambda"}
    THEN [res |-> Raise("RuntimeError_", "Value is not callable"), st |-> st, env |-> 0]
    ELSE IF Len(args) # Len(st.fns[fn.n].params)
    THEN [res |-> Raise("RuntimeError_", "expects args"), st |-> st, env |-> 0]
    ELSE LET e == Len(st.frames) + 1
             fr == Append(st.frames, Environment(1))
         IN [res |-> RetVal(NoneV), env |-> e,
             st |-> [st EXCEPT !.frames = BindParams(fr, e, st.fns[fn.n].params, args)]]

\* _call_function that binds a parameter to a copy of a list argument
CallEnv_CopyArgs(fn, args, st) ==
    IF fn.tag \notin {"fn", "lambda"}
    THEN [res |-> Raise("RuntimeError_", "Value is not callable"), st |-> st, env |-> 0]
    ELSE IF Len(args) # Len(st.fns[fn.n].params)
    THEN [res |-> Raise("RuntimeError_", "expects args"), st |-> st, env |-> 0]
    ELSE LET e == Len(st.frames) + 1
             fr == Append(st.frames, Environment(st.fns[fn.n].env))
             copy == Len(args) = 1 /\ args[1].tag = "list"
             h == IF copy THEN Append(st.heap, st.heap[args[1].n]) ELSE st.heap
             as == IF copy THEN <<ListV(Len(h))>> ELSE args
         IN [res |-> RetVal(NoneV), env |-> e,
             st |-> [st EXCEPT !.frames = BindParams(fr, e, st.fns[fn.n].params, as),
                               !.heap = h]]

\* Evaluator._call_function up to the evaluation of the body: the arity check,
\* the call environment and its parameters. env is the new environment, 0 if
\* the call failed before one was made.
CallEnv(fn, args, st) ==
    IF fn.tag \notin {"fn", "lambda"}
    THEN [res |-> Raise("RuntimeError_", "Value is not callable"), st |-> st, env |-> 0]
    ELSE IF Len(args) # Len(st.fns[fn.n].params)
    THEN [res |-> Raise("RuntimeError_", "expects args"), st |-> st, env |-> 0]
    ELSE LET e == Len(st.frames) + 1
             fr == Append(st.frames, Environment(st.fns[fn.n].env))
         IN [res |-> RetVal(NoneV), env |-> e,
             st |-> [st EXCEPT !.frames = BindParams(fr, e, st.fns[fn.n].params, args)]]

\* Evaluator.eval_FunctionCallNode for a name other than len and help, as the
\* value of an assignment to dest or as an expression statement (dest = "").
\* A lambda's body is evaluated at once; a function's body is entered.
eval_FunctionCallNode(name, args, dest) ==
    /\ Running
    /\ LET fn == EnvGet(frames, cur, name)
           c == CallEnv(fn.val, args, store)
           nd == [Node("FunctionCall", "", name, cur, fn.val, NoneV) EXCEPT !.at = c.env]
       IN IF fn.kind # "value" THEN Finish(Done(fn, store), nd)
          ELSE IF fn.val.tag \notin {"fn", "lambda"}
          THEN Finish(Done(Raise("RuntimeError_", "is not a function"), store), nd)
          ELSE IF c.res.kind # "value" THEN Finish(Done(c.res, c.st), nd)
          ELSE IF fn.val.tag = "lambda"
          THEN LET d == Eval(Ident(c.st.fns[fn.val.n].body), c.env, c.st)
               IN Finish(IF dest = "" THEN d ELSE AssignTo(d, cur, dest), nd)
          ELSE /\ InBounds(c.st)
               /\ Len(stack) < MaxDepth
               /\ frames' = c.st.frames
               /\ stack' = Append(stack, Ctx("call", c.env, fn.val.n, dest))
               /\ node' = nd
               /\ result' = Pending
               /\ UNCHANGED <<fns, heap, out, outcome>>

\* the position of the innermost context of one of the kinds, 0 if there is none
Innermost(stk, kinds) ==
    IF \E i \in 1..Len(stk) : stk[i].kind \in kinds
    THEN CHOOSE i \in 1..Len(stk) :
            stk[i].kind \in kinds /\ \A j \in (i + 1)..Len(stk) : stk[j].kind \notin kinds
    ELSE 0

\* _call_function returns value to the handler that made the call: the stack is
\* cut below the call's context and a pending assignment binds the value
ReturnTo(k, d, nd) ==
    /\ stack' = SubSeq(stack, 1, k - 1)
    /\ LET r == IF stack[k].dest = "" THEN d
                ELSE AssignTo(d, stack[k - 1].env, stack[k].dest)
       IN /\ InBounds(r.st)
          /\ frames' = r.st.frames
          /\ fns' = r.st.fns
          /\ heap' = r.st.heap
          /\ out' = r.st.out
    /\ node' = [nd EXCEPT !.name = stack[k].dest, !.env = stack[k - 1].env]
    /\ result' = d.res
    /\ UNCHANGED outcome

\* Evaluator.eval_ReturnNode: the ReturnSignal passes the loops and blocks of
\* the function body and is caught by the innermost _call_function; with no
\* call on the stack it reaches run_source
eval_ReturnNode(x) ==
    /\ Running
    /\ LET d == Eval(x, cur, store)
           k == Innermost(stack, {"call"})
           nd == Node("Return", "", "", cur, d.res.val, NoneV)
       IN IF d.res.kind # "value" THEN Finish(d, nd)
          ELSE IF k = 0 THEN Finish(Done(Raise("exc", "ReturnSignal"), d.st), nd)
          ELSE ReturnTo(k, d, nd)

\* _call_function when the body's block ends without a return: None
FunctionBodyEnd ==
    /\ Running
    /\ stack[Len(stack)].kind = "call"
    /\ ReturnTo(Len(stack), Done(RetVal(NoneV), store),
                Node("FunctionEnd", "", "", cur, NoneV, NoneV))

\* a block entered in an environment of its own
Enter_NewFrame(kind, d, nd) ==
    /\ Len(d.st.frames) < MaxFrames
    /\ Len(stack) < MaxDepth
    /\ stack' = Append(stack, Ctx(kind, Len(d.st.frames) + 1, 0, ""))
    /\ node' = nd
    /\ result' = Pending
    /\ frames' = Append(d.st.frames, Environment(cur))
    /\ fns' = d.st.fns
    /\ heap' = d.st.heap
    /\ out' = d.st.out
    /\ UNCHANGED outcome

\* a block is entered in the environment of the statement that holds it
Enter(kind, d, nd) ==
    /\ InBounds(d.st)
    /\ Len(stack) < MaxDepth
    /\ stack' = Append(stack, [Ctx(kind, cur, 0, "") EXCEPT !.mark = Bound(d.st.frames, cur)])
    /\ node' = nd
    /\ result' = Pending
    /\ frames' = d.st.frames
    /\ fns' = d.st.fns
    /\ heap' = d.st.heap
    /\ out' = d.st.out
    /\ UNCHANGED outcome

\* Evaluator.eval_IfNode: the then-block when the condition is truthy, the
\* else-block when there is one, else None
eval_IfNode(x, hasElse) ==
    /\ Running
    /\ LET d == Eval(x, cur, store)
           nd == Node("If", "", "", cur, d.res.val, NoneV)
       IN IF d.res.kind # "value" THEN Finish(d, nd)
          ELSE IF PyBool(d.res.val, d.st.heap) \/ hasElse THEN Enter("if", d, nd)
          ELSE Finish(Done(RetVal(NoneV), d.st), nd)

\* Evaluator.eval_WhileNode up to the first evaluation of the body
eval_WhileNode(x) ==
    /\ Running
    /\ LET d == Eval(x, cur, store)
           nd == Node("While", "", "", cur, d.res.val, NoneV)
       IN IF d.res.kind # "value" THEN Finish(d, nd)
          ELSE IF PyBool(d.res.val, d.st.heap) THEN Enter("while", d, nd)
          ELSE Finish(Done(RetVal(NoneV), d.st), nd)

\* how many names the block on top of the stack bound for the first time in
\* the environment it runs in
FirstBound == Cardinality(Bound(frames, cur) \ stack[Len(stack)].mark)

\* Evaluator.eval_BlockNode at the end of the statements of an if-block
BlockEnd ==
    /\ Running
    /\ stack[Len(stack)].kind = "if"
    /\ stack' = SubSeq(stack, 1, Len(stack) - 1)
    /\ node' = Node("BlockEnd", "", "", cur, IntV(FirstBound), NoneV)
    /\ result' = RetVal(NoneV)
    /\ UNCHANGED <<frames, fns, heap, out, outcome>>

\* eval_WhileNode when the body ended and the condition, evaluated again, is
\* falsy: the loop returns None
LoopExit ==
    /\ Running
    /\ stack[Len(stack)].kind = "while"
    /\ stack' = SubSeq(stack, 1, Len(stack) - 1)
    /\ node' = Node("LoopExit", "", "", cur, IntV(FirstBound), NoneV)
    /\ result' = RetVal(NoneV)
    /\ UNCHANGED <<frames, fns, heap, out, outcome>>

LoopKinds == {"while", "for"}

\* the signal caught by the outermost loop that is running
Unwind_Outermost(kind, exc) ==
    /\ LET k == IF Innermost(stack, LoopKinds) = 0 THEN 0
                ELSE CHOOSE i \in 1..Len(stack) :
                        /\ stack[i].kind \in LoopKinds
                        /\ \A j \in 1..(i - 1) : stack[j].kind \notin LoopKinds
           nd == Node(kind, "", "", cur, NoneV, NoneV)
       IN IF k = 0 THEN Finish(Done(Raise("exc", exc), store), nd)
          ELSE /\ stack' = SubSeq(stack, 1, IF kind = "Break" THEN k - 1 ELSE k)
               /\ node' = nd
               /\ result' = Pending
               /\ UNCHANGED <<frames, fns, heap, out, outcome>>

\* the signal caught only by a loop of the function body that raised it
Unwind_StopAtCall(kind, exc) ==
    /\ LET k == IF Innermost(stack, LoopKinds) > Innermost(stack, {"call"})
                THEN Innermost(stack, LoopKinds) ELSE 0
           nd == Node(kind, "", "", cur, NoneV, NoneV)
       IN IF k = 0 THEN Finish(Done(Raise("exc", exc), store), nd)
          ELSE /\ stack' = SubSeq(stack, 1, IF kind = "Break" THEN k - 1 ELSE k)
               /\ node' = nd
               /\ result' = Pending
               /\ UNCHANGED <<frames, fns, heap, out, outcome>>

\* a BreakSignal or ContinueSignal raised by eval_BreakNode / eval_ContinueNode:
\* the innermost loop's except clause catches it (break ends the loop, continue
\* goes on with the loop); every handler above it is left, and with no loop on
\* the stack the signal reaches run_source
Unwind(kind, exc) ==
    /\ LET k == Innermost(stack, LoopKinds)
           nd == Node(kind, "", "", cur, NoneV, NoneV)
       IN IF k = 0 THEN Finish(Done(Raise("exc", exc), store), nd)
          ELSE /\ stack' = SubSeq(stack, 1, IF kind = "Break" THEN k - 1 ELSE k)
               /\ node' = nd
               /\ result' = Pending
               /\ UNCHANGED <<frames, fns, heap, out, outcome>>

eval_BreakNode ==
    /\ Running
    /\ Unwind("Break", "BreakSignal")

eval_ContinueNode ==
    /\ Running
    /\ Unwind("Continue", "ContinueSignal")

\* Evaluator.eval_BinOpNode as an expression statement on operand expressions
eval_BinOpNode(op, lx, rx) ==
    /\ Running
    /\ LET l == Eval(lx, cur, store)
           r == Eval(rx, cur, l.st)
           nd == Node("BinOp", op, "", cur, l.res.val, r.res.val)
       IN IF l.res.kind # "value" THEN Finish(l, nd)
          ELSE IF r.res.kind # "value" THEN Finish(r, nd)
          ELSE Finish(Settle(Done(BinOpValue(op, l.res.val, r.res.val, r.st.heap, r.st.fns),
                                  r.st)), nd)

\* run_source when evaluator.run returned: the program ran to its end
ProgramEnd ==
    /\ Running
    /\ Len(stack) = 1
    /\ outcome' = "ok"
    /\ stack' = <<>>
    /\ node' = Node("ProgramEnd", "", "", 1, NoneV, NoneV)
    /\ result' = RetVal(NoneV)
    /\ UNCHANGED <<frames, fns, heap, out>>

\* the statements the programs of Spec are made of
AssignChoices ==
    {<<"x", Lit(IntV(0))>>, <<"x", Lit(IntV(1))>>, <<"f", LambdaE(<<>>, "x")>>}
CompoundChoices == {<<"x", "+", IntV(1)>>, <<"x", "/", IntV(0)>>}
DefChoices == {<<"f", <<>>>>}
CallChoices == {<<"f", <<>>, "">>, <<"f", <<>>, "f">>, <<"f", <<>>, "x">>}
ReturnChoices == {Ident("x"), Ident("f")}

Next ==
    \/ \E c \in AssignChoices : eval_AssignNode(c[1], c[2])
    \/ \E c \in CompoundChoices : eval_CompoundAssignNode(c[1], c[2], Lit(c[3]))
    \/ \E c \in DefChoices : eval_FunctionDefNode(c[1], c[2])
    \/ \E c \in CallChoices : eval_FunctionCallNode(c[1], c[2], c[3])
    \/ \E x \in ReturnChoices : eval_ReturnNode(x)
    \/ FunctionBodyEnd
    \/ ProgramEnd

Spec == Init /\ [][Next]_vars

(***************************** SpecCtl: blocks, loops and signals ***********)
CondChoices == {<<Lit(IntV(0)), TRUE>>, <<Lit(IntV(0)), FALSE>>, <<Lit(IntV(1)), FALSE>>}

NextCtl ==
    \/ eval_AssignNode("x", Lit(IntV(1)))
    \/ eval_FunctionDefNode("f", <<>>)
    \/ \E dest \in {"", "x"} : eval_FunctionCallNode("f", <<>>, dest)
    \/ eval_ReturnNode(Lit(IntV(1)))
    \/ FunctionBodyEnd
    \/ \E c \in CondChoices : eval_IfNode(c[1], c[2])
    \/ \E x \in {Lit(IntV(0)), Lit(IntV(1))} : eval_WhileNode(x)
    \/ BlockEnd
    \/ LoopExit
    \/ eval_BreakNode
    \/ eval_ContinueNode
    \/ ProgramEnd

SpecCtl == Init /\ [][NextCtl]_vars

(***************************** SpecOperand: operands with effects ***********)
NextOperand ==
    \/ \E x \in {Lit(IntV(0)), ListLit(<<>>)} : eval_AssignNode("x", x)
    \/ \E op \in {"and", "or", "=="}, lx \in OperandExprs, rx \in OperandExprs :
          eval_BinOpNode(op, lx, rx)
    \/ ProgramEnd

SpecOperand == Init /\ [][NextOperand]_vars

(***************************** SpecFor: for-range ***************************)
\* range(start, stop, step) of the host for a step other than 0
RECURSIVE RangeSeq(_, _, _)
RangeSeq(start, stop, step) ==
    IF (step > 0 /\ start < stop) \/ (step < 0 /\ start > stop)
    THEN <<start>> \o RangeSeq(start + step, stop, step)
    ELSE <<>>

\* the range of eval_ForRangeNode that stops before end
ForRangeValues_Exclusive(start, end, step, reverse) ==
    IF reverse THEN RangeSeq(start, end, -Abs(step))
    ELSE RangeSeq(start, end, Abs(step))

\* the range eval_ForRangeNode iterates over, step # 0
ForRangeValues(start, end, step, reverse) ==
    IF reverse THEN RangeSeq(start, end - 1, -Abs(step))
    ELSE RangeSeq(start, end + 1, Abs(step))

\* isinstance(v, (int, float)): a bool is an int of the host
IsIntOrFloat(v) == v.tag \in {"int", "float", "bool"}

\* eval_ForRangeNode from the values of start, end and step to the range:
\* the two type checks, int() of the three, and range(), which raises
\* ValueError for a step of 0
ForRangeTry(start, end, step, reverse) ==
    IF ~IsIntOrFloat(start) THEN Raise("RuntimeError_", "Range start must be a number")
    ELSE IF ~IsIntOrFloat(end) THEN Raise("RuntimeError_", "Range end must be a number")
    ELSE IF ~PyInt(step).ok THEN Raise("exc", PyInt(step).exc)
    ELSE IF PyInt(step).v = 0 THEN Raise("exc", "ValueError")
    ELSE RetFresh([i \in 1..Len(ForRangeValues(PyInt(start).v, PyInt(end).v,
                                                PyInt(step).v, reverse)) |->
                     IntV(ForRangeValues(PyInt(start).v, PyInt(end).v,
                                         PyInt(step).v, reverse)[i])])

\* Evaluator.eval_ForRangeNode up to the first evaluation of the body: the
\* loop variable is bound to the first value of the range in env; an empty
\* range returns None at once. A for without a step clause has step 1.
eval_ForRangeNode(var, sx, ex, stepx, reverse) ==
    /\ Running
    /\ LET s == Eval(sx, cur, store)
           e == Eval(ex, cur, s.st)
           t == Eval(stepx, cur, e.st)
           r == ForRangeTry(s.res.val, e.res.val, t.res.val, reverse)
           nd == [Node("ForRange", IF reverse THEN "reverse" ELSE "", var, cur,
                       s.res.val, e.res.val) EXCEPT !.step = t.res.val]
       IN IF s.res.kind # "value" THEN Finish(s, nd)
          ELSE IF e.res.kind # "value" THEN Finish(e, nd)
          ELSE IF t.res.kind # "value" THEN Finish(t, nd)
          ELSE IF r.kind # "value" THEN Finish(Done(r, t.st), nd)
          ELSE IF r.fresh = <<>> THEN Finish(Done(RetVal(NoneV), t.st), nd)
          ELSE /\ Len(stack) < MaxForDepth
               /\ InBounds([t.st EXCEPT !.frames = EnvSet(t.st.frames, cur, var, Head(r.fresh))])
               /\ stack' = Append(stack, [Ctx("for", cur, 0, var) EXCEPT
                                             !.mark = Bound(t.st.frames, cur),
                                             !.rng = Tail(r.fresh),
                                             !.done = <<Head(r.fresh)>>])
               /\ frames' = EnvSet(t.st.frames, cur, var, Head(r.fresh))
               /\ fns' = t.st.fns
               /\ heap' = t.st.heap
               /\ out' = t.st.out
               /\ node' = nd
               /\ result' = Pending
               /\ UNCHANGED outcome

\* eval_ForRangeNode that takes the next value from the loop variable and the
\* bound of the range left
ForStep_FromVariable ==
    /\ Running
    /\ stack[Len(stack)].kind = "for"
    /\ stack[Len(stack)].rng # <<>>
    /\ LET c == stack[Len(stack)]
           v == IF frames[cur].vars[c.dest].tag = "int"
                THEN IntV((frames[cur].vars[c.dest].n + 1) % (MaxInt + 1))
                ELSE Head(c.rng)
       IN /\ frames' = EnvSet(frames, cur, c.dest, v)
          /\ stack' = [stack EXCEPT ![Len(stack)].rng = Tail(c.rng),
                                    ![Len(stack)].done = Append(c.done, v)]
          /\ node' = Node("ForStep", "", c.dest, cur, v, NoneV)
    /\ result' = Pending
    /\ UNCHANGED <<fns, heap, out, outcome>>

\* eval_ForRangeNode when the body ended (or continue was caught) and the
\* range has a next value: env.set(node.var, i) and the body again
ForStep ==
    /\ Running
    /\ stack[Len(stack)].kind = "for"
    /\ stack[Len(stack)].rng # <<>>
    /\ LET c == stack[Len(stack)]
       IN /\ frames' = EnvSet(frames, cur, c.dest, Head(c.rng))
          /\ stack' = [stack EXCEPT ![Len(stack)].rng = Tail(c.rng),
                                    ![Len(stack)].done = Append(c.done, Head(c.rng))]
          /\ node' = Node("ForStep", "", c.dest, cur, Head(c.rng), NoneV)
    /\ result' = Pending
    /\ UNCHANGED <<fns, heap, out, outcome>>

\* eval_ForRangeNode when the body ended and the range is exhausted: None
ForExit ==
    /\ Running
    /\ stack[Len(stack)].kind = "for"
    /\ stack[Len(stack)].rng = <<>>
    /\ stack' = SubSeq(stack, 1, Len(stack) - 1)
    /\ node' = Node("ForExit", "", stack[Len(stack)].dest, cur, IntV(FirstBound), NoneV)
    /\ result' = RetVal(NoneV)
    /\ UNCHANGED <<frames, fns, heap, out, outcome>>

\* the for statements of SpecFor: <<start, end, step, reverse>>, every range
\* over 0..MaxInt with steps of both signs, a step of 0, a for without a step
\* clause, and operands that are not integers
ForChoices ==
    {<<Lit(IntV(a)), Lit(IntV(b)), Lit(IntV(t)), rev>> :
        a \in 0..MaxInt, b \in 0..MaxInt, t \in {-2, 0, 1, 2}, rev \in BOOLEAN}
    \cup {<<Lit(StrV(<<"a">>)), Lit(IntV(1)), Lit(IntV(1)), FALSE>>,
          <<Lit(IntV(0)), Lit(NoneV), Lit(IntV(1)), FALSE>>,
          <<Lit(FloatV(1, 2)), Lit(FloatV(3, 2)), Lit(IntV(1)), FALSE>>,
          <<Lit(IntV(0)), Lit(IntV(1)), Lit(NoneV), FALSE>>,
          <<Lit(IntV(0)), Lit(IntV(1)), Lit(StrV(<<"a">>)), TRUE>>}

NextFor ==
    \/ \E c \in ForChoices : eval_ForRangeNode("x", c[1], c[2], c[3], c[4])
    \/ ForStep
    \/ ForExit
    \/ eval_BreakNode
    \/ eval_ContinueNode
    \/ ProgramEnd

SpecFor == Init /\ [][NextFor]_vars

(***************************** SpecForBody: assignments in a for body *******)
\* the for statements over the loop variable x whose bounds read the variable
\* f, with literal bounds, and with an empty range; the body assigns to x and f
ForBodyChoices ==
    {<<Lit(IntV(0)), Ident("f"), Lit(IntV(1)), FALSE>>,
     <<Ident("f"), Lit(IntV(0)), Lit(IntV(1)), TRUE>>,
     <<Lit(IntV(0)), Lit(IntV(2)), Ident("f"), FALSE>>,
     <<Ident("x"), Lit(IntV(2)), Lit(IntV(1)), FALSE>>,
     <<Lit(IntV(1)), Lit(IntV(0)), Lit(IntV(1)), FALSE>>}

NextForBody ==
    \/ \E c \in ForBodyChoices : eval_ForRangeNode("x", c[1], c[2], c[3], c[4])
    \/ \E nm \in Names, v \in 0..MaxInt : eval_AssignNode(nm, Lit(IntV(v)))
    \/ ForStep
    \/ ForExit
    \/ eval_ContinueNode
    \/ ProgramEnd

SpecForBody == Init /\ [][NextForBody]_vars

(***************************** SpecModule: modules and methods **************)
\* the characters of the method names the programs of the model use
NameChars(nm) ==
    CASE nm = "keys" -> <<"k", "e", "y", "s">>
      [] nm = "length" -> <<"l", "e", "n", "g", "t", "h">>
      [] nm = "sqrt" -> <<"s", "q", "r", "t">>
      [] nm = "abs" -> <<"a", "b", "s">>
      [] nm = "has" -> <<"h", "a", "s">>
      [] OTHER -> <<nm>>

\* EushaModule.get: the name looked up in the module's environment
ModuleGet(fr, e, attr) ==
    IF attr \in AllNames /\ EnvGet(fr, e, attr).kind = "value" THEN EnvGet(fr, e, attr)
    ELSE Raise("RuntimeError_", "Module has no attribute")

\* fn(*args) on the host callables of the math module: lambda x: pymath.sqrt(x)
\* and lambda x: abs(x); a call with another number of arguments is the host's
\* TypeError, sqrt of a negative number its ValueError
NativeCall(name, args) ==
    IF Len(args) # 1 THEN Raise("exc", "TypeError")
    ELSE IF ~IsNum(args[1]) THEN Raise("exc", "TypeError")
    ELSE IF name = "abs"
    THEN RetVal(IF IsIntLike(args[1]) THEN IntV(Abs(args[1].n))
                ELSE FloatV(Abs(args[1].n), args[1].d))
    ELSE IF args[1].n < 0 THEN Raise("exc", "ValueError")
    ELSE IF args[1].n \in {0, args[1].d} THEN RetVal(FloatV(args[1].n, args[1].d))
    ELSE RetVal(FloatV(2, 1))

\* the dict part of eval_MethodCallNode
MethodMap(obj, method, args, st) ==
    LET m == st.heap[obj.n]
        at == {i \in 1..Len(m.keys) : ScalarEq(m.keys[i], StrV(NameChars(method)))}
    IN CASE method = "keys" -> Done(RetFresh(m.keys), st)
         [] method = "values" -> Done(RetFresh(m.items), st)
         [] method = "length" -> Done(RetVal(IntV(Len(m.keys))), st)
         [] method = "has" ->
              IF Len(args) # 1
              THEN Done(Raise("RuntimeError_", ".has() takes exactly 1 argument"), st)
              ELSE IF ~Hashable(args[1]) THEN Done(Raise("exc", "TypeError"), st)
              ELSE Done(RetVal(BoolV(\E i \in 1..Len(m.keys) : ScalarEq(m.keys[i], args[1]))),
                        st)
         [] OTHER ->
              IF at # {} /\ args = <<>> THEN Done(RetVal(m.items[CHOOSE i \in at : TRUE]), st)
              ELSE Done(Raise("RuntimeError_", "Unknown object method"), st)

\* list.sort() of the host on a list of scalars: a stable sort by <, which
\* raises TypeError when two of the elements cannot be ordered
RECURSIVE PySort(_)
PySort(items) ==
    IF Len(items) <= 1 THEN items
    ELSE LET rest == PySort(Tail(items))
             less(v) == ScalarOrd(v, Head(items)) = "lt"
             notLess(v) == ScalarOrd(v, Head(items)) # "lt"
         IN SelectSeq(rest, less) \o <<Head(items)>> \o SelectSeq(rest, notLess)

\* the list items in the opposite order
ListReverse(items) == [i \in 1..Len(items) |-> items[Len(items) + 1 - i]]

\* the rest of eval_MethodCallNode for the methods of the model (none of them
\* a conversion): the list and string catalogs, then the final raise
MethodOther(obj, method, args, st) ==
    IF obj.tag = "list" /\ method = "push"
    THEN (IF Len(args) # 1
          THEN Done(Raise("RuntimeError_", ".push() takes exactly 1 argument"), st)
          ELSE MethodPush(obj, args[1], st))
    ELSE IF obj.tag = "list" /\ method = "pop"
    THEN (IF st.heap[obj.n].items = <<>>
          THEN Done(Raise("RuntimeError_", "Cannot .pop() from an empty list"), st)
          ELSE Done(RetVal(st.heap[obj.n].items[Len(st.heap[obj.n].items)]),
                    [st EXCEPT !.heap[obj.n].items =
                        SubSeq(st.heap[obj.n].items, 1, Len(st.heap[obj.n].items) - 1)]))
    ELSE IF obj.tag = "list" /\ method = "sort"
    THEN (IF \E i, j \in 1..Len(st.heap[obj.n].items) :
                i # j /\ ScalarOrd(st.heap[obj.n].items[i], st.heap[obj.n].items[j])
                            = "TypeError"
          THEN Done(Raise("exc", "TypeError"), st)
          ELSE Done(RetVal(obj),
                    [st EXCEPT !.heap[obj.n].items = PySort(st.heap[obj.n].items)]))
    ELSE IF obj.tag = "list" /\ method = "reverse"
    THEN Done(RetVal(obj),
              [st EXCEPT !.heap[obj.n].items = ListReverse(st.heap[obj.n].items)])
    ELSE IF obj.tag = "list" /\ method = "length"
    THEN Done(RetVal(IntV(Len(st.heap[obj.n].items))), st)
    ELSE IF obj.tag = "str" /\ method = "length" THEN Done(RetVal(IntV(Len(obj.s))), st)
    ELSE Done(Raise("RuntimeError_", "Unknown method"), st)

\* _call_function from a handler at the top of the stack, as the value of an
\* assignment to dest or as an expression statement: a lambda's body is
\* evaluated at once, a function's body is entered
CallFunction(fn, args, dest, nd) ==
    LET c == CallEnv(fn, args, store)
        n == [nd EXCEPT !.at = c.env]
    IN IF c.res.kind # "value" THEN Finish(Done(c.res, c.st), n)
       ELSE IF fn.tag = "lambda"
       THEN LET d == Eval(Ident(c.st.fns[fn.n].body), c.env, c.st)
            IN Finish(IF dest = "" THEN d ELSE AssignTo(d, cur, dest), n)
       ELSE /\ InBounds(c.st)
            /\ Len(stack) < MaxDepth
            /\ frames' = c.st.frames
            /\ stack' = Append(stack, Ctx("call", c.env, fn.n, dest))
            /\ node' = n
            /\ result' = Pending
            /\ UNCHANGED <<fns, heap, out, outcome>>

\* Evaluator.eval_MethodCallNode on the object bound to name with argument
\* values args. node.left is the object, node.right the value the module or
\* the map holds under the method's name (the first argument for a method of
\* a list or a string), node.op the method and node.step the number of
\* arguments.
eval_MethodCallNode(name, method, args, dest) ==
    /\ Running
    /\ LET obj == EnvGet(frames, cur, name)
           fn == ModuleGet(frames, obj.val.n, method)
           nd == [Node("MethodCall", method, dest, cur, obj.val, NoneV)
                     EXCEPT !.step = IntV(Len(args))]
           fin(d, n) == Finish(Settle(IF dest = "" THEN d ELSE AssignTo(Settle(d), cur, dest)), n)
       IN IF obj.kind # "value" THEN Finish(Done(obj, store), nd)
          ELSE IF obj.val.tag = "module"
          THEN (IF fn.kind # "value" THEN Finish(Done(fn, store), nd)
                ELSE IF fn.val.tag = "native"
                THEN fin(Done(NativeCall(method, args), store), [nd EXCEPT !.right = fn.val])
                ELSE IF fn.val.tag \in {"fn", "lambda"}
                THEN CallFunction(fn.val, args, dest, [nd EXCEPT !.right = fn.val])
                ELSE IF args = <<>> THEN fin(Done(fn, store), [nd EXCEPT !.right = fn.val])
                ELSE fin(Done(Raise("RuntimeError_", "is not callable"), store),
                         [nd EXCEPT !.right = fn.val]))
          ELSE IF obj.val.tag = "map"
          THEN fin(MethodMap(obj.val, method, args, store), nd)
          ELSE fin(MethodOther(obj.val, method, args, store),
                   IF args # <<>> THEN [nd EXCEPT !.right = args[1]] ELSE nd)

\* what the file of a module binds at its top level: x and a function f
ModuleParams == {<<>>, <<"x">>}

\* eval_UseNode whose file module is evaluated in a child of the importing
\* environment
eval_UseNode_Child(name, found, params) ==
    /\ Running
    /\ LET e == Len(frames) + 1
           f == Len(fns) + 1
           nd == Node("Use", "", name, cur, ModuleV(e), NoneV)
           menv == [Environment(cur) EXCEPT !.vars["x"] = IntV(1), !.vars["f"] = FnV(f)]
       IN IF name = "math"
          THEN Finish(Done(RetVal(NoneV),
                           [store EXCEPT !.frames = EnvSet(Append(frames, MathEnv), cur, name,
                                                            ModuleV(e))]), nd)
          ELSE IF ~found
          THEN Finish(Done(Raise("RuntimeError_", "Module not found"), store), nd)
          ELSE Finish(Done(RetVal(NoneV),
                           [store EXCEPT !.frames = EnvSet(Append(frames, menv), cur, name,
                                                            ModuleV(e)),
                                         !.fns = Append(fns, FnRec("fn", "f", params, e))]),
                      nd)

\* Evaluator.eval_UseNode: math is built in; the file module m, when its file
\* is found, is evaluated by a new Evaluator in a fresh environment, in which
\* it binds x and defines f
eval_UseNode(name, found, params) ==
    /\ Running
    /\ LET e == Len(frames) + 1
           f == Len(fns) + 1
           nd == Node("Use", "", name, cur, ModuleV(e), NoneV)
           menv == [Environment(0) EXCEPT !.vars["x"] = IntV(1), !.vars["f"] = FnV(f)]
       IN IF name = "math"
          THEN Finish(Done(RetVal(NoneV),
                           [store EXCEPT !.frames = EnvSet(Append(frames, MathEnv), cur, name,
                                                            ModuleV(e))]), nd)
          ELSE IF ~found
          THEN Finish(Done(Raise("RuntimeError_", "Module not found"), store), nd)
          ELSE Finish(Done(RetVal(NoneV),
                           [store EXCEPT !.frames = EnvSet(Append(frames, menv), cur, name,
                                                            ModuleV(e)),
                                         !.fns = Append(fns, FnRec("fn", "f", params, e))]),
                      nd)

\* the statements of SpecModule
UseChoices == {<<"math", TRUE, <<>>>>, <<"m", FALSE, <<>>>>, <<"m", TRUE, <<>>>>,
               <<"m", TRUE, <<"x">>>>}
ArgLists == {<<>>, <<IntV(1)>>, <<IntV(1), IntV(1)>>}
MethodChoices ==
    {<<"math", mt, args, "">> : mt \in {"sqrt", "abs", "x"}, args \in ArgLists}
    \cup {<<"m", mt, args, d>> : mt \in {"x", "f", "abs"}, args \in ArgLists, d \in {"", "f"}}
    \cup {<<"x", mt, args, "">> : mt \in {"k", "length", "has", "z"},
                                  args \in {<<>>, <<IntV(1)>>}}
MapChoices ==
    {MapLit(<<StrV(<<"k">>), StrV(NameChars("length"))>>, <<IntV(1), IntV(0)>>),
     MapLit(<<StrV(<<"h", "a", "s">>)>>, <<IntV(1)>>)}

NextModule ==
    \/ \E c \in UseChoices : eval_UseNode(c[1], c[2], c[3])
    \/ \E c \in MethodChoices : eval_MethodCallNode(c[1], c[2], c[3], c[4])
    \/ \E x \in {Lit(IntV(0))} \cup MapChoices : eval_AssignNode("x", x)
    \/ eval_ReturnNode(Ident("x"))
    \/ FunctionBodyEnd
    \/ ProgramEnd

SpecModule == Init /\ [][NextModule]_vars

(***************************** SpecLoad: loading file modules ***************)
\* The module files next to the program: l binds x; s binds x, uses itself
\* and binds f; a uses l and b; b uses a. There is no file q.elang. A statement
\* is <<"assign", name>> or <<"use", module>>.
ModuleFiles == {"l", "s", "a", "b"}
ModuleSource(name) ==
    CASE name = "l" -> << <<"assign", "x">> >>
      [] name = "s" -> << <<"assign", "x">>, <<"use", "s">>, <<"assign", "f">> >>
      [] name = "a" -> << <<"use", "l">>, <<"use", "b">> >>
      [] name = "b" -> << <<"use", "a">> >>
      [] OTHER -> <<>>

\* the nesting of loads at which the host's recursion limit is reached, and
\* the environments the model makes
MaxLoads == 3
MaxLoadFrames == 14

Loads(stk) == Cardinality({i \in 1..Len(stk) : stk[i].kind = "module"})

\* the statement that comes next: the program's statements are arbitrary, a
\* module's are those of its file
ComesNext(stmt) ==
    \/ stack[Len(stack)].kind = "run"
    \/ /\ stack[Len(stack)].kind = "module"
       /\ stack[Len(stack)].rng # <<>>
       /\ Head(stack[Len(stack)].rng) = stmt

\* the stack once the statement on top is taken up
Taken(stk) ==
    IF stk[Len(stk)].kind = "module" THEN [stk EXCEPT ![Len(stk)].rng = Tail(stk[Len(stk)].rng)]
    ELSE stk

\* eval_UseNode for a file module that remembers the modules loaded or being
\* loaded and binds the environment it made for the name the first time
UseFile_Cached(name) ==
    /\ Running
    /\ ComesNext(<<"use", name>>)
    /\ LET e == Len(frames) + 1
           nd == Node("Use", "", name, cur, ModuleV(e), NoneV)
           known == {i \in 1..Len(frames) : frames[i].parent = 0 /\ i > 1}
       IN IF name \notin ModuleFiles
          THEN Finish(Done(Raise("RuntimeError_", "Module not found"), store), nd)
          ELSE IF known # {}
          THEN /\ stack' = Taken(stack)
               /\ frames' = EnvSet(frames, cur, name, ModuleV(CHOOSE i \in known : TRUE))
               /\ node' = nd
               /\ result' = RetVal(NoneV)
               /\ UNCHANGED <<fns, heap, out, outcome>>
          ELSE /\ stack' = Append(Taken(stack),
                                  [Ctx("module", e, 0, name) EXCEPT !.rng = ModuleSource(name)])
               /\ frames' = Append(frames, Environment(0))
               /\ node' = nd
               /\ result' = Pending
               /\ UNCHANGED <<fns, heap, out, outcome>>

\* Evaluator.eval_UseNode for a file module, up to the evaluation of the
\* module's block by the new Evaluator in the new environment; the host's
\* RecursionError when the nesting of loads is at the limit
UseFile(name) ==
    /\ Running
    /\ ComesNext(<<"use", name>>)
    /\ stack[Len(stack)].kind = "run" => Len(frames) + 2 * MaxLoads + 1 <= MaxLoadFrames
    /\ LET e == Len(frames) + 1
           nd == Node("Use", "", name, cur, ModuleV(e), NoneV)
       IN IF name \notin ModuleFiles
          THEN Finish(Done(Raise("RuntimeError_", "Module not found"), store), nd)
          ELSE IF Loads(stack) = MaxLoads
          THEN /\ stack' = <<>>
               /\ outcome' = Report("RecursionError")
               /\ node' = nd
               /\ result' = Raise("exc", "RecursionError")
               /\ UNCHANGED <<frames, fns, heap, out>>
          ELSE /\ stack' = Append(Taken(stack),
                                  [Ctx("module", e, 0, name) EXCEPT !.rng = ModuleSource(name)])
               /\ frames' = Append(frames, Environment(0))
               /\ node' = nd
               /\ result' = Pending
               /\ UNCHANGED <<fns, heap, out, outcome>>

\* an assignment among the top-level statements of the module being loaded
ModuleAssign ==
    /\ Running
    /\ stack[Len(stack)].kind = "module"
    /\ stack[Len(stack)].rng # <<>>
    /\ Head(stack[Len(stack)].rng)[1] = "assign"
    /\ stack' = Taken(stack)
    /\ frames' = EnvAssign(frames, cur, Head(stack[Len(stack)].rng)[2], IntV(1))
    /\ node' = Node("Assign", "", Head(stack[Len(stack)].rng)[2], cur, IntV(1), NoneV)
    /\ result' = RetVal(IntV(1))
    /\ UNCHANGED <<fns, heap, out, outcome>>

\* eval_UseNode once mod_evaluator.eval returned: the module value is bound to
\* the module's name in the importing environment
ModuleLoaded ==
    /\ Running
    /\ stack[Len(stack)].kind = "module"
    /\ stack[Len(stack)].rng = <<>>
    /\ stack' = SubSeq(stack, 1, Len(stack) - 1)
    /\ frames' = EnvSet(frames, stack[Len(stack) - 1].env, stack[Len(stack)].dest,
                        ModuleV(cur))
    /\ node' = Node("ModuleLoaded", "", stack[Len(stack)].dest, stack[Len(stack) - 1].env,
                    ModuleV(cur), NoneV)
    /\ result' = RetVal(NoneV)
    /\ UNCHANGED <<fns, heap, out, outcome>>

NextLoad ==
    \/ \E name \in ModuleFiles \cup {"q"} : UseFile(name)
    \/ ModuleAssign
    \/ ModuleLoaded
    \/ ProgramEnd

\* the evaluator goes on with the next statement as long as there is one
SpecLoad == Init /\ [][NextLoad]_vars /\ WF_vars(NextLoad)

(***************************** SpecLex: the lexer ****************************)
\* A source is a sequence of one-character strings; pos is the 1-based index
\* of Lexer.current(), past the end when it is None.
MaxSrc == 4

SrcChars == {"\"", "'", "\\", "{", "}", "a", "1", "@", "\n"}

\* Lexer.current / Lexer.peek at index p: "" stands for None
CharAt(src, p) == IF p >= 1 /\ p <= Len(src) THEN src[p] ELSE ""

\* the line and column counters of Lexer.advance when pos is p
RECURSIVE LineAt(_, _)
LineAt(src, p) ==
    IF p <= 1 THEN 1
    ELSE LineAt(src, p - 1) + (IF src[p - 1] = "\n" THEN 1 ELSE 0)

RECURSIVE ColAt(_, _)
ColAt(src, p) ==
    IF p <= 1 THEN 1 ELSE IF src[p - 1] = "\n" THEN 1 ELSE ColAt(src, p - 1) + 1

\* raise LexerError(msg, line, column, hint)
LexerError(msg, line, column) ==
    [Raise("LexerError", msg) EXCEPT !.line = line, !.column = column]

IsSpace(c) == c \in {" ", "\t", "\r"}
IsAlpha(c) == c \in {"a", "b", "f", "x"}

\* Lexer.skip_whitespace, skip_comment, and the digit / identifier loops: the
\* first index at or after p whose character is not of the kind
RECURSIVE SkipWhile(_, _, _)
SkipWhile(src, p, kind) ==
    LET c == CharAt(src, p)
        more == CASE kind = "space" -> IsSpace(c)
                  [] kind = "comment" -> c # "" /\ c # "\n"
                  [] kind = "digit" -> c # "" /\ IsDigit(c)
                  [] OTHER -> c # "" /\ (IsAlpha(c) \/ IsDigit(c) \/ c = "_")
    IN IF more THEN SkipWhile(src, p + 1, kind) ELSE p

\* the inner loop of read_string over an interpolation: the index it stops at
RECURSIVE InterpEnd(_, _, _)
InterpEnd(src, p, depth) ==
    LET c == CharAt(src, p)
    IN IF c = "" \/ depth <= 0 THEN p
       ELSE IF c = "{" THEN InterpEnd(src, p + 1, depth + 1)
       ELSE IF c = "}" THEN (IF depth = 1 THEN p ELSE InterpEnd(src, p + 1, depth - 1))
       ELSE InterpEnd(src, p + 1, depth)

\* Lexer.read_string after the opening quote at index start: the main loop at
\* index p. The result is the token type and the index after the closing
\* quote, a LexerError, or the host's IndexError of self.source[self.pos] when
\* advance() runs at the end of the source.
RECURSIVE ReadString(_, _, _, _, _)
ReadString(src, start, quote, p, interp) ==
    LET c == CharAt(src, p)
    IN IF c = "" \/ c = quote
       THEN (IF c # quote
             THEN [res |-> LexerError("Unterminated string literal",
                                      LineAt(src, start), ColAt(src, start)),
                   type |-> "", pos |-> p]
             ELSE [res |-> RetVal(NoneV), pos |-> p + 1,
                   type |-> IF interp THEN "FSTRING" ELSE "STRING"])
       ELSE IF c = "\\"
       THEN (IF p + 1 > Len(src)
             THEN [res |-> Raise("exc", "IndexError"), type |-> "", pos |-> p + 1]
             ELSE ReadString(src, start, quote, p + 2, interp))
       ELSE IF c = "{" /\ quote = "\""
       THEN LET q == InterpEnd(src, p + 1, 1)
            IN IF CharAt(src, q) # "}"
               THEN [res |-> LexerError("Unterminated string interpolation",
                                        LineAt(src, q), ColAt(src, q)),
                     type |-> "", pos |-> q]
               ELSE ReadString(src, start, quote, q + 1, TRUE)
       ELSE ReadString(src, start, quote, p + 1, interp)

\* Lexer.read_number from index p: the token type and the index after it
ReadNumber(src, p) ==
    LET q == SkipWhile(src, p, "digit")
    IN IF CharAt(src, q) = "." /\ CharAt(src, q + 1) # "."
       THEN [type |-> "FLOAT", pos |-> SkipWhile(src, q + 1, "digit")]
       ELSE [type |-> "INT", pos |-> q]

TwoCharOps ==
    {<<"*", "*">>, <<".", ".">>, <<"=", ">">>, <<"-", ">">>, <<"+", "=">>, <<"-", "=">>,
     <<"*", "=">>, <<"/", "=">>, <<"=", "=">>, <<"!", "=">>, <<"<", "=">>, <<">", "=">>,
     <<"&", "&">>}
SimpleOps ==
    {"+", "-", "*", "/", "%", "=", "<", ">", "(", ")", "{", "}", "[", "]", ",", ".", ":"}

\* the loop of Lexer.tokenize at index p with the token types toks so far
RECURSIVE TokenizeFrom(_, _, _)
TokenizeFrom(src, p, toks) ==
    LET q == SkipWhile(src, p, "space")
        ch == CharAt(src, q)
        nx == CharAt(src, q + 1)
    IN IF CharAt(src, p) = "" \/ ch = ""
       THEN [RetVal(NoneV) EXCEPT !.fresh = Append(toks, "EOF")]
       ELSE IF ch = "$" /\ nx = "$"
       THEN TokenizeFrom(src, SkipWhile(src, q + 2, "comment"), toks)
       ELSE IF ch = "\n" THEN TokenizeFrom(src, q + 1, Append(toks, "NEWLINE"))
       ELSE IF ch \in {"\"", "'"}
       THEN LET r == ReadString(src, q, ch, q + 1, FALSE)
            IN IF r.res.kind # "value" THEN r.res
               ELSE TokenizeFrom(src, r.pos, Append(toks, r.type))
       ELSE IF IsDigit(ch)
       THEN TokenizeFrom(src, ReadNumber(src, q).pos, Append(toks, ReadNumber(src, q).type))
       ELSE IF IsAlpha(ch) \/ ch = "_"
       THEN TokenizeFrom(src, SkipWhile(src, q, "ident"), Append(toks, "WORD"))
       ELSE IF <<ch, nx>> \in TwoCharOps THEN TokenizeFrom(src, q + 2, Append(toks, "OP2"))
       ELSE IF ch \in SimpleOps THEN TokenizeFrom(src, q + 1, Append(toks, "OP1"))
       ELSE LexerError("Unknown character", LineAt(src, q), ColAt(src, q))

\* Lexer(source).tokenize(): the types of the tokens in fresh, or the error
Tokenize(src) == TokenizeFrom(src, 1, <<>>)

RECURSIVE Sources(_)
Sources(n) ==
    IF n = 0 THEN {<<>>}
    ELSE Sources(n - 1) \cup {Append(src, c) : src \in {t \in Sources(n - 1) : Len(t) = n - 1},
                                               c \in SrcChars}

InitLex ==
    /\ frames = <<GlobalEnv>>
    /\ stack = <<>>
    /\ fns = <<>>
    /\ heap = <<>>
    /\ out = 0
    /\ outcome = "running"
    /\ node \in {Node("Tokenize", "", "", 1, StrV(src), NoneV) : src \in Sources(MaxSrc)}
    /\ result = Pending

TokenizeStep ==
    /\ node.kind = "Tokenize" /\ result = Pending
    /\ result' = Tokenize(node.left.s)
    /\ UNCHANGED <<frames, stack, fns, heap, out, outcome, node>>

NextLex == TokenizeStep

SpecLex == InitLex /\ [][NextLex]_vars

(***************************** SpecRepl: the interactive prompt **************)
\* what input('eusha> ') gives the loop of repl: the words exit and quit, the
\* exceptions EOFError and KeyboardInterrupt, a blank line, or a line of source
ReplWords == {"exit", "quit"}
ReplExceptions == {"EOFError", "KeyboardInterrupt"}

\* the lines of source of the model: src is tokenized; ast says whether the
\* parser accepts the tokens. A line that is accepted is evaluated statement
\* by statement by the actions of the machine.
ReplLines ==
    {[src |-> <<"a">>, ast |-> TRUE], [src |-> <<"a", "1">>, ast |-> FALSE],
     [src |-> <<"@">>, ast |-> TRUE], [src |-> <<"'", "\\">>, ast |-> TRUE]}

\* run_source up to evaluator.run: Lexer(source).tokenize() and
\* Parser(tokens).parse(); the exception that leaves them, "" for none
FrontEnd(line) ==
    IF Tokenize(line.src).kind # "value" THEN ExcClass(Tokenize(line.src))
    ELSE IF ~line.ast THEN "ParseError"
    ELSE ""

\* one turn of repl that makes a new Evaluator for the line
repl_FreshEvaluator(kind, word, line) ==
    /\ outcome \notin {"running", "bye"}
    /\ node' = Node("Input", IF kind = "line" THEN "line" ELSE word, outcome, 1,
                    StrV(line.src), NoneV)
    /\ result' = Pending
    /\ UNCHANGED <<fns, heap, out>>
    /\ CASE kind \in {"word", "exception"} ->
              outcome' = "bye" /\ UNCHANGED <<stack, frames>>
         [] kind = "blank" -> UNCHANGED <<outcome, stack, frames>>
         [] OTHER ->
              IF FrontEnd(line) # ""
              THEN outcome' = Report(FrontEnd(line)) /\ UNCHANGED <<stack, frames>>
              ELSE /\ outcome' = "running"
                   /\ stack' = <<Ctx("run", 1, 0, "")>>
                   /\ frames' = <<GlobalEnv>>

\* one turn of the loop of repl: the prompt is read; exit, quit, EOFError and
\* KeyboardInterrupt end the session; a blank line is skipped; any other line
\* goes to run_source with the session's one evaluator, whose return value is
\* ignored. node.name is how the line before ended.
repl(kind, word, line) ==
    /\ outcome \notin {"running", "bye"}
    /\ node' = Node("Input", IF kind = "line" THEN "line" ELSE word, outcome, 1,
                    StrV(line.src), NoneV)
    /\ result' = Pending
    /\ UNCHANGED <<frames, fns, heap, out>>
    /\ CASE kind \in {"word", "exception"} -> outcome' = "bye" /\ UNCHANGED stack
         [] kind = "blank" -> UNCHANGED <<outcome, stack>>
         [] OTHER ->
              IF FrontEnd(line) # ""
              THEN outcome' = Report(FrontEnd(line)) /\ UNCHANGED stack
              ELSE outcome' = "running" /\ stack' = <<Ctx("run", 1, 0, "")>>

\* a KeyboardInterrupt raised while evaluator.run is evaluating the line
InterruptLine ==
    /\ Running
    /\ stack' = <<>>
    /\ outcome' = Report("KeyboardInterrupt")
    /\ node' = Node("Interrupt", "", "", cur, NoneV, NoneV)
    /\ result' = Raise("exc", "KeyboardInterrupt")
    /\ UNCHANGED <<frames, fns, heap, out>>

\* the host's RecursionError raised by a call at the deepest level of the stack
RecursionOverflow ==
    /\ Running
    /\ Len(stack) = MaxCallDepth
    /\ stack' = <<>>
    /\ outcome' = Report("RecursionError")
    /\ node' = Node("Overflow", "", "", cur, NoneV, NoneV)
    /\ result' = Raise("exc", "RecursionError")
    /\ UNCHANGED <<frames, fns, heap, out>>

InitRepl ==
    /\ frames = <<GlobalEnv>>
    /\ stack = <<>>
    /\ fns = <<>>
    /\ heap = <<>>
    /\ out = 0
    /\ outcome = "prompt"
    /\ node = NoNode
    /\ result = Pending

ReplChoices ==
    {<<"word", w, [src |-> <<>>, ast |-> TRUE]>> : w \in ReplWords}
    \cup {<<"exception", x, [src |-> <<>>, ast |-> TRUE]>> : x \in ReplExceptions}
    \cup {<<"blank", "", [src |-> <<>>, ast |-> TRUE]>>}
    \cup {<<"line", "", l>> : l \in ReplLines}

NextRepl ==
    \/ \E c \in ReplChoices : repl(c[1], c[2], c[3])
    \/ eval_AssignNode("x", Lit(IntV(1)))
    \/ \E c \in {<<"x", "+", IntV(1)>>, <<"x", "/", IntV(0)>>} :
          eval_CompoundAssignNode(c[1], c[2], Lit(c[3]))
    \/ eval_FunctionDefNode("f", <<>>)
    \/ eval_FunctionCallNode("f", <<>>, "")
    \/ eval_BreakNode
    \/ FunctionBodyEnd
    \/ InterruptLine
    \/ RecursionOverflow
    \/ ProgramEnd

SpecRepl == InitRepl /\ [][NextRepl]_vars

(***************************** SpecList: lists and aliases *******************)
\* the try block of eval_IndexSetNode: target[index] = value on a map,
\* target[int(index)] = value on anything else
IndexSetTry(target, index, value, st) ==
    IF target.tag = "map"
    THEN (IF ~Hashable(index) THEN Done(Raise("exc", "TypeError"), st)
          ELSE LET m == st.heap[target.n]
                   at == {i \in 1..Len(m.keys) : ScalarEq(m.keys[i], index)}
               IN IF at # {}
                  THEN Done(RetVal(value),
                            [st EXCEPT !.heap[target.n].items[CHOOSE i \in at : TRUE] = value])
                  ELSE Done(RetVal(value),
                            [st EXCEPT !.heap[target.n] =
                                MapObj(Append(m.keys, index), Append(m.items, value))]))
    ELSE IF ~PyInt(index).ok THEN Done(Raise("exc", PyInt(index).exc), st)
    ELSE IF target.tag # "list" THEN Done(Raise("exc", "TypeError"), st)
    ELSE IF ~SeqGet(st.heap[target.n].items, PyInt(index).v).ok
    THEN Done(Raise("exc", "IndexError"), st)
    ELSE Done(RetVal(value),
              [st EXCEPT !.heap[target.n].items[SeqGet(st.heap[target.n].items,
                                                       PyInt(index).v).at] = value])

\* Evaluator.eval_IndexSetNode for name[index] = value on literal index and value
eval_IndexSetNode(name, index, value) ==
    /\ Running
    /\ LET t == EnvGet(frames, cur, name)
           nd == [Node("IndexSet", "", name, cur, t.val, value) EXCEPT !.step = index]
       IN IF t.kind # "value" THEN Finish(Done(t, store), nd)
          ELSE LET d == IndexSetTry(t.val, index, value, store)
               IN Finish(Done(Except(d.res, {"IndexError", "TypeError", "KeyError"}), d.st), nd)

\* Evaluator.eval_FunctionCallNode whose one argument is the identifier arg:
\* the argument is evaluated in the caller's environment, then the call is made
eval_FunctionCallNode_Ident(name, arg, dest) ==
    /\ Running
    /\ LET a == EnvGet(frames, cur, arg)
       IN IF a.kind # "value"
          THEN Finish(Done(a, store), Node("FunctionCall", "", name, cur, NoneV, NoneV))
          ELSE eval_FunctionCallNode(name, <<a.val>>, dest)

\* the statements of SpecList: x is bound to a list literal, f to what x is
\* bound to or to a function of one parameter x; f(x)
\* passes the caller's x; the methods and index-set go through either name
ListChoices == {<<>>, <<IntV(1), IntV(0)>>}
ListMethodChoices ==
    {<<nm, "push", <<IntV(1)>>>> : nm \in Names}
    \cup {<<nm, mt, <<>>>> : nm \in Names, mt \in {"pop", "sort", "reverse"}}

NextList ==
    \/ \E items \in ListChoices : eval_AssignNode("x", ListLit(items))
    \/ eval_AssignNode("f", Ident("x"))
    \/ eval_FunctionDefNode("f", <<"x">>)
    \/ eval_FunctionCallNode_Ident("f", "x", "")
    \/ \E c \in ListMethodChoices : eval_MethodCallNode(c[1], c[2], c[3], "")
    \/ \E nm \in Names, i \in {-1, 2} : eval_IndexSetNode(nm, IntV(i), IntV(0))
    \/ FunctionBodyEnd
    \/ ProgramEnd

SpecList == Init /\ [][NextList]_vars

(***************************** SpecParse: the parser *************************)
\* A token is its type and its value: the text of an operator, a keyword, an
\* identifier or a numeral; an FSTRING has in parts the source text of its one
\* expression part, as a sequence of characters. pos is the 1-based index of
\* Parser.pos into the token list.
Tok(type, value) == [type |-> type, value |-> value, parts |-> <<>>]
FStringTok(src) == [type |-> "FSTRING", value |-> "", parts |-> src]

\* Parser.peek
Peek(toks, pos) == IF pos + 1 <= Len(toks) THEN toks[pos + 1] ELSE toks[Len(toks)]

\* Parser.advance: the cursor stays on the last token
Advance(toks, pos) == IF pos < Len(toks) THEN pos + 1 ELSE pos

\* Parser.match
Match(toks, pos, type, value) ==
    /\ pos <= Len(toks)
    /\ toks[pos].type = type
    /\ value # "" => toks[pos].value = value

\* How a parse function ends: the AST and the cursor after it, a ParseError, an
\* exception of the lexer run on the text of an interpolation, or a loop that
\* made an iteration without consuming a token and without raising ("stuck":
\* the iteration repeats forever). far is the greatest index the cursor held.
Parsed(ast, pos) == [kind |-> "value", ast |-> ast, pos |-> pos, exc |-> ""]
ParseError(pos) == [kind |-> "ParseError", ast |-> <<>>, pos |-> pos, exc |-> "ParseError"]
Stuck(pos) == [kind |-> "stuck", ast |-> <<>>, pos |-> pos, exc |-> ""]

\* Parser.expect(type): the cursor after the token, or the ParseError
Expect(toks, pos, type) ==
    IF toks[pos].type # type THEN ParseError(pos) ELSE Parsed(<<>>, Advance(toks, pos))

\* Parser.skip_newlines: the index of the first token that is no NEWLINE; 0
\* when the last token is a NEWLINE, on which the loop never ends
RECURSIVE skip_newlines(_, _)
skip_newlines(toks, pos) ==
    IF toks[pos].type # "NEWLINE" THEN pos
    ELSE IF Advance(toks, pos) = pos THEN 0
    ELSE skip_newlines(toks, Advance(toks, pos))

\* the operator tokens of the left-associative binary levels
CmpTypes == {"EQEQ", "NEQ", "LT", "GT", "LTE", "GTE"}
IsLevelOp(level, tok) ==
    CASE level = "or" -> tok.type = "KEYWORD" /\ tok.value = "or"
      [] level = "and" -> tok.type = "KEYWORD" /\ tok.value = "and"
      [] level = "comparison" -> tok.type \in CmpTypes
      [] level = "add_sub" -> tok.type \in {"PLUS", "MINUS"}
      [] OTHER -> tok.type \in {"MUL", "DIV", "MOD"}

\* the tokens of the text of an interpolation, for the texts of the model,
\* which hold at most one token, of one character
FragmentTokens(src) ==
    LET lx == Tokenize(src)
    IN IF lx.kind # "value" THEN <<>>
       ELSE [i \in 1..Len(lx.fresh) |->
               CASE lx.fresh[i] = "INT" -> Tok("INT", src[1])
                 [] lx.fresh[i] = "WORD" -> Tok("IDENTIFIER", src[1])
                 [] OTHER -> Tok("EOF", "")]

\* The parse functions of the expression grammar, each after the one it calls
\* first, at the same cursor
Levels ==
    <<"parse_postfix", "parse_unary", "parse_power", "parse_mul_div", "parse_add_sub",
      "parse_comparison", "parse_not", "parse_and", "parse_or", "parse_expression">>
LevelOf(fn) == CHOOSE i \in 1..Len(Levels) : Levels[i] = fn

\* One parse function calling another with the cursor at pos. A parse function
\* reads the tokens and the cursor only, so its outcome at a cursor is computed
\* once: tab.rows holds the outcomes of the functions of Levels at the cursors
\* after tab.pos, the last cursor first, and tab.row those at tab.pos of the
\* functions computed so far. A call that is in neither is a call of a function
\* from inside itself at the same cursor, which recurses forever.
Call(tab, fn, toks, pos) ==
    LET i == Len(toks) - pos + 1
    IN IF i <= Len(tab.rows) THEN tab.rows[i][LevelOf(fn)]
       ELSE IF pos = tab.pos /\ LevelOf(fn) <= Len(tab.row) THEN tab.row[LevelOf(fn)]
       ELSE Stuck(pos)

\* the while loop of parse_or, parse_and, parse_comparison, parse_add_sub and
\* parse_mul_div: left is the operand parsed so far; each iteration consumes
\* the operator and parses the right operand one level down
RECURSIVE BinaryLoop(_, _, _, _)
BinaryLoop(toks, left, level, tab) ==
    IF left.kind # "value" \/ ~IsLevelOp(level, toks[left.pos]) THEN left
    ELSE LET p == Advance(toks, left.pos)
             right == CASE level = "or" -> Call(tab, "parse_and", toks, p)
                        [] level = "and" -> Call(tab, "parse_not", toks, p)
                        [] level = "comparison" -> Call(tab, "parse_add_sub", toks, p)
                        [] level = "add_sub" -> Call(tab, "parse_mul_div", toks, p)
                        [] OTHER -> Call(tab, "parse_power", toks, p)
         IN IF right.kind # "value" THEN right
            ELSE IF right.pos <= left.pos THEN Stuck(right.pos)
            ELSE BinaryLoop(toks,
                            Parsed(<<"BinOp", left.ast, toks[left.pos].value, right.ast>>,
                                   right.pos),
                            level, tab)

parse_expression(toks, pos, tab) == Call(tab, "parse_or", toks, pos)

parse_or(toks, pos, tab) == BinaryLoop(toks, Call(tab, "parse_and", toks, pos), "or", tab)

parse_and(toks, pos, tab) == BinaryLoop(toks, Call(tab, "parse_not", toks, pos), "and", tab)

parse_not(toks, pos, tab) ==
    IF Match(toks, pos, "KEYWORD", "not")
    THEN LET operand == Call(tab, "parse_not", toks, Advance(toks, pos))
         IN IF operand.kind # "value" THEN operand
            ELSE Parsed(<<"UnaryOp", "not", operand.ast>>, operand.pos)
    ELSE Call(tab, "parse_comparison", toks, pos)

parse_comparison(toks, pos, tab) ==
    BinaryLoop(toks, Call(tab, "parse_add_sub", toks, pos), "comparison", tab)

parse_add_sub(toks, pos, tab) ==
    BinaryLoop(toks, Call(tab, "parse_mul_div", toks, pos), "add_sub", tab)

parse_mul_div(toks, pos, tab) ==
    BinaryLoop(toks, Call(tab, "parse_power", toks, pos), "mul_div", tab)

\* parse_power that loops over ** as the other binary levels do
parse_power_LeftAssoc(toks, pos, tab) ==
    LET left == Call(tab, "parse_unary", toks, pos)
    IN IF left.kind # "value" \/ toks[left.pos].type # "POW" THEN left
       ELSE LET right == Call(tab, "parse_unary", toks, Advance(toks, left.pos))
                more == IF right.kind = "value" /\ toks[right.pos].type = "POW"
                        THEN Call(tab, "parse_unary", toks, Advance(toks, right.pos))
                        ELSE right
            IN IF right.kind # "value" THEN right
               ELSE IF more.kind # "value" THEN more
               ELSE IF more = right THEN Parsed(<<"BinOp", left.ast, "**", right.ast>>, right.pos)
               ELSE Parsed(<<"BinOp", <<"BinOp", left.ast, "**", right.ast>>, "**", more.ast>>,
                           more.pos)

\* Parser.parse_power: the right operand is a parse_power
parse_power(toks, pos, tab) ==
    LET left == Call(tab, "parse_unary", toks, pos)
    IN IF left.kind # "value" \/ toks[left.pos].type # "POW" THEN left
       ELSE LET right == Call(tab, "parse_power", toks, Advance(toks, left.pos))
            IN IF right.kind # "value" THEN right
               ELSE Parsed(<<"BinOp", left.ast, toks[left.pos].value, right.ast>>, right.pos)

parse_unary(toks, pos, tab) ==
    IF toks[pos].type = "MINUS"
    THEN LET operand == Call(tab, "parse_unary", toks, Advance(toks, pos))
         IN IF operand.kind # "value" THEN operand
            ELSE Parsed(<<"UnaryOp", toks[pos].value, operand.ast>>, operand.pos)
    ELSE Call(tab, "parse_postfix", toks, pos)

\* the loop of parse_call and of the argument list of a method call, at the
\* token after the opening parenthesis or after an argument: up to the closing
\* parenthesis, which expect consumes
RECURSIVE ArgsLoop(_, _, _, _)
ArgsLoop(toks, pos, args, tab) ==
    IF toks[pos].type = "RPAREN" THEN Parsed(args, Advance(toks, pos))
    ELSE LET a == Call(tab, "parse_expression", toks, pos)
             p == IF a.kind = "value" /\ toks[a.pos].type = "COMMA"
                  THEN Advance(toks, a.pos) ELSE a.pos
         IN IF a.kind # "value" THEN a
            ELSE IF p <= pos THEN Stuck(p)
            ELSE ArgsLoop(toks, p, Append(args, a.ast), tab)

\* the while True loop of parse_postfix on the node parsed so far
RECURSIVE PostfixLoop(_, _, _)
PostfixLoop(toks, r, tab) ==
    IF r.kind # "value" THEN r
    ELSE IF toks[r.pos].type = "DOT"
    THEN (IF Peek(toks, r.pos).type \notin {"IDENTIFIER", "KEYWORD"} THEN r
          ELSE LET m == Advance(toks, r.pos)
                   p == Advance(toks, m)
                   args == IF toks[p].type = "LPAREN"
                           THEN ArgsLoop(toks, Advance(toks, p), <<>>, tab)
                           ELSE Parsed(<<>>, p)
               IN IF args.kind # "value" THEN args
                  ELSE IF args.pos <= r.pos THEN Stuck(args.pos)
                  ELSE PostfixLoop(toks,
                                   Parsed(<<"MethodCall", r.ast, toks[m].value, args.ast>>,
                                          args.pos),
                                   tab))
    ELSE IF toks[r.pos].type = "LBRACKET"
    THEN LET index == Call(tab, "parse_expression", toks, Advance(toks, r.pos))
             close == Expect(toks, index.pos, "RBRACKET")
         IN IF index.kind # "value" THEN index
            ELSE IF close.kind # "value" THEN close
            ELSE IF close.pos <= r.pos THEN Stuck(close.pos)
            ELSE PostfixLoop(toks, Parsed(<<"IndexGet", r.ast, index.ast>>, close.pos), tab)
    ELSE r

\* Parser.parse_call at the opening parenthesis
parse_call(name, toks, pos, tab) ==
    LET open == Expect(toks, pos, "LPAREN")
        args == ArgsLoop(toks, open.pos, <<>>, tab)
    IN IF open.kind # "value" THEN open
       ELSE IF args.kind # "value" THEN args
       ELSE Parsed(<<"FunctionCall", name, args.ast>>, args.pos)

\* the while loop of parse_list at the token after an element
RECURSIVE ListLoop(_, _, _, _)
ListLoop(toks, pos, elements, tab) ==
    IF toks[pos].type # "COMMA" THEN Parsed(elements, pos)
    ELSE IF toks[Advance(toks, pos)].type = "RBRACKET"
    THEN Parsed(elements, Advance(toks, pos))
    ELSE LET e == Call(tab, "parse_expression", toks, Advance(toks, pos))
         IN IF e.kind # "value" THEN e
            ELSE IF e.pos <= pos THEN Stuck(e.pos)
            ELSE ListLoop(toks, e.pos, Append(elements, e.ast), tab)

parse_list(toks, pos, tab) ==
    LET p == Advance(toks, pos)
        first == Call(tab, "parse_expression", toks, p)
        elements == IF toks[p].type = "RBRACKET" THEN Parsed(<<>>, p)
                    ELSE IF first.kind # "value" THEN first
                    ELSE ListLoop(toks, first.pos, <<first.ast>>, tab)
        close == Expect(toks, elements.pos, "RBRACKET")
    IN IF elements.kind # "value" THEN elements
       ELSE IF close.kind # "value" THEN close
       ELSE Parsed(<<"List", elements.ast>>, close.pos)

\* the while loop of parse_paren_or_lambda over ", identifier": the parameters,
\* the cursor, and might_be_lambda
RECURSIVE ParamLoop(_, _, _)
ParamLoop(toks, pos, params) ==
    IF toks[pos].type # "COMMA" THEN [params |-> params, pos |-> pos, might |-> TRUE]
    ELSE IF toks[Advance(toks, pos)].type # "IDENTIFIER"
    THEN [params |-> params, pos |-> Advance(toks, pos), might |-> FALSE]
    ELSE ParamLoop(toks, Advance(toks, Advance(toks, pos)),
                   Append(params, toks[Advance(toks, pos)].value))

\* Parser.parse_paren_or_lambda: (params) => expr when the tokens after the
\* parenthesis are identifiers separated by commas, a closing parenthesis and
\* =>; otherwise the cursor goes back to saved_pos and the parenthesis is a
\* grouped expression
parse_paren_or_lambda(toks, pos, tab) ==
    LET p == Advance(toks, pos)
        l == IF toks[p].type = "IDENTIFIER"
             THEN ParamLoop(toks, Advance(toks, p), <<toks[p].value>>)
             ELSE [params |-> <<>>, pos |-> p, might |-> toks[p].type = "RPAREN"]
        arrow == Advance(toks, l.pos)
        isLambda == l.might /\ toks[l.pos].type = "RPAREN" /\ toks[arrow].type = "FATARROW"
        body == Call(tab, "parse_expression", toks, Advance(toks, arrow))
        expr == Call(tab, "parse_expression", toks, Advance(toks, pos))
        close == Expect(toks, expr.pos, "RPAREN")
    IN IF isLambda
       THEN (IF body.kind # "value" THEN body
             ELSE Parsed(<<"Lambda", l.params, body.ast>>, body.pos))
       ELSE IF expr.kind # "value" THEN expr
       ELSE IF close.kind # "value" THEN close
       ELSE Parsed(expr.ast, close.pos)

RECURSIVE Rows(_, _)

\* Parser.parse_fstring on the FSTRING token at pos, which parse_primary has
\* consumed: the text of the interpolation is tokenized by a new Lexer and
\* parsed by a new Parser; an exception of either leaves parse_fstring
parse_fstring(toks, pos) ==
    LET lx == Tokenize(toks[pos].parts)
        fragment == FragmentTokens(toks[pos].parts)
        sub == Call([rows |-> Rows(fragment, 1), row |-> <<>>, pos |-> 0],
                    "parse_expression", fragment, 1)
    IN IF lx.kind # "value"
       THEN [kind |-> lx.kind, ast |-> <<>>, pos |-> Advance(toks, pos),
             exc |-> IF lx.kind = "exc" THEN lx.exc ELSE lx.kind]
       ELSE IF sub.kind # "value" THEN [sub EXCEPT !.pos = Advance(toks, pos)]
       ELSE Parsed(<<"FString", sub.ast>>, Advance(toks, pos))

parse_primary(toks, pos, tab) ==
    LET tok == toks[pos]
    IN CASE tok.type = "INT" -> Parsed(<<"Number", tok.value>>, Advance(toks, pos))
         [] tok.type = "FSTRING" -> parse_fstring(toks, pos)
         [] tok.type = "IDENTIFIER" ->
              IF Peek(toks, pos).type = "FATARROW"
              THEN LET body == Call(tab, "parse_expression", toks,
                                    Advance(toks, Advance(toks, pos)))
                   IN IF body.kind # "value" THEN body
                      ELSE Parsed(<<"Lambda", <<tok.value>>, body.ast>>, body.pos)
              ELSE IF toks[Advance(toks, pos)].type = "LPAREN"
              THEN parse_call(tok.value, toks, Advance(toks, pos), tab)
              ELSE Parsed(<<"Identifier", tok.value>>, Advance(toks, pos))
         [] tok.type = "LBRACKET" -> parse_list(toks, pos, tab)
         [] tok.type = "LPAREN" -> parse_paren_or_lambda(toks, pos, tab)
         [] OTHER -> ParseError(pos)

parse_postfix(toks, pos, tab) == PostfixLoop(toks, parse_primary(toks, pos, tab), tab)

\* the parse function named fn, called with the cursor at pos
ParseAt(fn, toks, pos, tab) ==
    CASE fn = "parse_postfix" -> parse_postfix(toks, pos, tab)
      [] fn = "parse_unary" -> parse_unary(toks, pos, tab)
      [] fn = "parse_power" -> parse_power(toks, pos, tab)
      [] fn = "parse_mul_div" -> parse_mul_div(toks, pos, tab)
      [] fn = "parse_add_sub" -> parse_add_sub(toks, pos, tab)
      [] fn = "parse_comparison" -> parse_comparison(toks, pos, tab)
      [] fn = "parse_not" -> parse_not(toks, pos, tab)
      [] fn = "parse_and" -> parse_and(toks, pos, tab)
      [] fn = "parse_or" -> parse_or(toks, pos, tab)
      [] OTHER -> parse_expression(toks, pos, tab)

\* the outcomes at the cursor pos of the first n functions of Levels, given
\* the outcomes at the cursors after pos: lower holds those of the first n - 1
AddLevel(toks, pos, later, n, lower) ==
    Append(lower, ParseAt(Levels[n], toks, pos, [rows |-> later, row |-> lower, pos |-> pos]))

\* (a set of one element binds the outcomes computed so far to a value, which
\* is computed once)
RECURSIVE Row(_, _, _, _)
Row(toks, pos, later, n) ==
    IF n = 0 THEN <<>>
    ELSE CHOOSE row \in {AddLevel(toks, pos, later, n, lower) :
                           lower \in {Row(toks, pos, later, n - 1)}} : TRUE

\* the outcomes at the cursors pos .. Len(toks), the last cursor first
AddRow(toks, pos, later) == Append(later, Row(toks, pos, later, Len(Levels)))

Rows(toks, pos) ==
    IF pos > Len(toks) THEN <<>>
    ELSE CHOOSE rows \in {AddRow(toks, pos, later) : later \in {Rows(toks, pos + 1)}} : TRUE

\* the outcomes of the parse functions at every cursor of the token list
Table(toks) == [rows |-> Rows(toks, 1), row |-> <<>>, pos |-> 0]

parse_assignment(toks, pos, tab) ==
    LET value == Call(tab, "parse_expression", toks, Advance(toks, Advance(toks, pos)))
    IN IF value.kind # "value" THEN value
       ELSE Parsed(<<"Assign", toks[pos].value, value.ast>>, value.pos)

\* parse_possible_index_assignment that keeps the cursor after the index when
\* the statement is no assignment
parse_possible_index_assignment_NoRewind(toks, pos, tab) ==
    LET index == Call(tab, "parse_expression", toks, Advance(toks, Advance(toks, pos)))
        close == Expect(toks, index.pos, "RBRACKET")
        value == Call(tab, "parse_expression", toks, Advance(toks, close.pos))
    IN IF index.kind # "value" THEN index
       ELSE IF close.kind # "value" THEN close
       ELSE IF toks[close.pos].type = "EQ"
       THEN (IF value.kind # "value" THEN value
             ELSE Parsed(<<"IndexSet", <<"Identifier", toks[pos].value>>, index.ast, value.ast>>,
                         value.pos))
       ELSE Call(tab, "parse_expression", toks, close.pos)

\* Parser.parse_possible_index_assignment at the identifier at pos (saved_pos)
parse_possible_index_assignment(toks, pos, tab) ==
    LET index == Call(tab, "parse_expression", toks, Advance(toks, Advance(toks, pos)))
        close == Expect(toks, index.pos, "RBRACKET")
        value == Call(tab, "parse_expression", toks, Advance(toks, close.pos))
    IN IF index.kind # "value" THEN index
       ELSE IF close.kind # "value" THEN close
       ELSE IF toks[close.pos].type = "EQ"
       THEN (IF value.kind # "value" THEN value
             ELSE Parsed(<<"IndexSet", <<"Identifier", toks[pos].value>>, index.ast, value.ast>>,
                         value.pos))
       ELSE Call(tab, "parse_expression", toks, pos)

\* Parser.parse_statement on the statements of the model: break, continue, an
\* assignment, an indexed assignment, an expression
parse_statement(toks, pos, tab) ==
    LET tok == toks[pos]
    IN IF tok.type = "KEYWORD" /\ tok.value \in {"break", "continue"}
       THEN Parsed(<<tok.value>>, Advance(toks, pos))
       ELSE IF tok.type = "IDENTIFIER" /\ Peek(toks, pos).type = "EQ"
       THEN parse_assignment(toks, pos, tab)
       ELSE IF tok.type = "IDENTIFIER" /\ Peek(toks, pos).type = "LBRACKET"
       THEN parse_possible_index_assignment(toks, pos, tab)
       ELSE Call(tab, "parse_expression", toks, pos)

\* the while loop of Parser.parse at pos, after skip_newlines
RECURSIVE StatementLoop(_, _, _, _)
StatementLoop(toks, pos, stmts, tab) ==
    IF pos = 0 THEN Stuck(Len(toks))
    ELSE IF toks[pos].type = "EOF" THEN Parsed(<<"Block", stmts>>, pos)
    ELSE LET stmt == parse_statement(toks, pos, tab)
             nxt == skip_newlines(toks, stmt.pos)
         IN IF stmt.kind # "value" THEN stmt
            ELSE IF nxt <= pos THEN Stuck(stmt.pos)
            ELSE StatementLoop(toks, nxt, Append(stmts, stmt.ast), tab)

\* Parser(tokens).parse()
parse(toks) == StatementLoop(toks, skip_newlines(toks, 1), <<>>, Table(toks))

\* The token lists parsed. Expressions of one to three operands, each a number
\* or x[number] with an optional - or not in front, joined by one operator of
\* each binary level; the lists of three plain operands also with one pair of
\* parentheses around two of them.
PrecValues == {<<"2", "3", "2">>}
PrecPrefixes == {<<>>, <<Tok("MINUS", "-")>>, <<Tok("KEYWORD", "not")>>}
PrecOps ==
    {Tok("KEYWORD", "or"), Tok("KEYWORD", "and"), Tok("LT", "<"), Tok("PLUS", "+"),
     Tok("MUL", "*"), Tok("POW", "**")}
Open == <<Tok("LPAREN", "(")>>
Close == <<Tok("RPAREN", ")")>>
EofTok == Tok("EOF", "")

PrecOperand(prefix, indexed, v) ==
    prefix \o (IF indexed
               THEN <<Tok("IDENTIFIER", "x"), Tok("LBRACKET", "["), Tok("INT", v),
                      Tok("RBRACKET", "]")>>
               ELSE <<Tok("INT", v)>>)

PrecOperands == {PrecOperand(p, i, "2") : p \in PrecPrefixes, i \in BOOLEAN}
PlainOperands == {PrecOperand(p, FALSE, "2") : p \in PrecPrefixes}

\* operand a with the numeral of position k of vs
WithValue(a, v) ==
    [i \in 1..Len(a) |-> IF a[i].type = "INT" THEN Tok("INT", v) ELSE a[i]]

ExprSources ==
    {WithValue(a, "2") \o <<EofTok>> : a \in PrecOperands}
    \cup {WithValue(a, vs[1]) \o <<o>> \o WithValue(b, vs[2]) \o <<EofTok>> :
            a \in PrecOperands, b \in PrecOperands, o \in PrecOps, vs \in PrecValues}
    \cup {WithValue(a, vs[1]) \o <<o1>> \o WithValue(b, vs[2]) \o <<o2>>
          \o WithValue(c, vs[3]) \o <<EofTok>> :
            a \in PrecOperands, b \in PrecOperands, c \in PrecOperands,
            o1 \in PrecOps, o2 \in PrecOps, vs \in PrecValues}
    \cup {(IF g = 1 THEN Open ELSE <<>>) \o WithValue(a, vs[1]) \o <<o1>>
          \o (IF g = 2 THEN Open ELSE <<>>) \o WithValue(b, vs[2])
          \o (IF g = 1 THEN Close ELSE <<>>) \o <<o2>> \o WithValue(c, vs[3])
          \o (IF g = 2 THEN Close ELSE <<>>) \o <<EofTok>> :
            a \in PlainOperands, b \in PlainOperands, c \in PlainOperands,
            o1 \in PrecOps, o2 \in PrecOps, vs \in PrecValues, g \in 1..2}
    \cup {<<Tok("INT", "2"), Tok("PLUS", "+"), Tok("INT", "3"), Tok("MUL", "*"),
            Tok("INT", "4"), EofTok>>}

\* the tokens of the lists of up to MaxToks tokens, which end in an EOF: the
\* interpolations hold an unknown character, or a quote and a backslash
MaxToks == 4

ParseAlphabet ==
    {Tok("INT", "1"), Tok("IDENTIFIER", "x"), Tok("LPAREN", "("), Tok("RPAREN", ")"),
     Tok("LBRACKET", "["), Tok("RBRACKET", "]"), Tok("COMMA", ","), Tok("FATARROW", "=>"),
     Tok("EQ", "="), Tok("NEWLINE", ""), FStringTok(<<"@">>),
     FStringTok(<<"'", "\\">>)}

\* statements x [ index ] tail, and the forms with a lambda in parentheses
IndexParts ==
    {<<Tok("INT", "1")>>, <<FStringTok(<<"1">>)>>, <<Tok("MINUS", "-"), Tok("INT", "1")>>,
     <<Tok("IDENTIFIER", "x"), Tok("LBRACKET", "["), Tok("INT", "1"), Tok("RBRACKET", "]")>>,
     <<Tok("INT", "1"), Tok("COMMA", ",")>>, <<FStringTok(<<"@">>)>>, <<>>}
IndexTails ==
    {<<>>, <<Tok("EQ", "="), Tok("INT", "1")>>, <<Tok("EQ", "=")>>,
     <<Tok("EQ", "="), Tok("IDENTIFIER", "x"), Tok("FATARROW", "=>"), Tok("INT", "1")>>,
     <<Tok("LBRACKET", "["), Tok("INT", "1"), Tok("RBRACKET", "]")>>,
     <<Tok("LBRACKET", "["), Tok("INT", "1"), Tok("RBRACKET", "]"), Tok("EQ", "="),
       Tok("INT", "1")>>,
     <<Tok("DOT", "."), Tok("IDENTIFIER", "x")>>, <<Tok("POW", "**"), Tok("INT", "1")>>,
     <<Tok("EQEQ", "=="), Tok("INT", "1")>>,
     <<Tok("NEWLINE", ""), Tok("IDENTIFIER", "x"), Tok("EQ", "="), Tok("INT", "1")>>}
IndexForms ==
    {<<Tok("IDENTIFIER", "x"), Tok("LBRACKET", "[")>> \o i \o c \o t \o <<EofTok>> :
       i \in IndexParts, c \in {<<>>, <<Tok("RBRACKET", "]")>>}, t \in IndexTails}
LambdaForms ==
    {Open \o <<Tok("IDENTIFIER", "x")>> \o m \o Close \o t \o <<EofTok>> :
       m \in {<<>>, <<Tok("COMMA", ","), Tok("IDENTIFIER", "x")>>,
              <<Tok("COMMA", ","), Tok("INT", "1")>>, <<Tok("COMMA", ",")>>},
       t \in {<<>>, <<Tok("FATARROW", "=>"), Tok("INT", "1")>>, <<Tok("FATARROW", "=>")>>,
              <<Tok("POW", "**"), Tok("INT", "1")>>}}

\* the loops of parse_call, parse_list, parse_postfix and parse on up to
\* MaxItems items: arguments and elements with and without commas, chains of
\* methods and indexes, statements and newlines
MaxItems == 3
Comma == <<Tok("COMMA", ",")>>
Method == <<Tok("DOT", "."), Tok("IDENTIFIER", "x")>>
LoopForms ==
    UNION {{<<Tok("IDENTIFIER", "x")>> \o Open \o s \o c,
            <<Tok("LBRACKET", "[")>> \o s \o c,
            <<Tok("IDENTIFIER", "x")>> \o Method \o Open \o s \o c \o Method,
            <<Tok("INT", "1"), Tok("LBRACKET", "[")>> \o s \o c \o <<Tok("LBRACKET", "[")>>
              \o s \o c} :
             s \in UNION {[1..n -> {Tok("INT", "1"), Tok("COMMA", ","), Tok("IDENTIFIER", "x")}] :
                            n \in 0..MaxItems},
             c \in {<<>>, Close, <<Tok("RBRACKET", "]")>>}}
    \cup UNION {[1..n -> {Tok("IDENTIFIER", "x"), Tok("NEWLINE", ""), Tok("EQ", "="),
                          Tok("KEYWORD", "break")}] : n \in (MaxToks + 1)..(MaxToks + 2)}

ParseNode(kind, toks) == [kind |-> kind, toks |-> toks]

InitParse ==
    /\ frames = <<GlobalEnv>>
    /\ stack = <<>>
    /\ fns = <<>>
    /\ heap = <<>>
    /\ out = 0
    /\ outcome = "running"
    /\ \/ \E s \in ExprSources : node = ParseNode("parse_expression", s)
       \/ \E n \in 0..MaxToks : \E s \in [1..n -> ParseAlphabet] :
             node = ParseNode("parse", Append(s, EofTok))
       \/ \E s \in IndexForms \cup LambdaForms : node = ParseNode("parse", s)
       \/ \E s \in LoopForms : node = ParseNode("parse", Append(s, EofTok))
       \/ \E s \in IndexForms : node = ParseNode("parse_statement", s)
       \/ \E n \in 0..(MaxToks - 2) : \E s \in [1..n -> ParseAlphabet] :
             node = ParseNode("parse_statement",
                              <<Tok("IDENTIFIER", "x"), Tok("LBRACKET", "[")>> \o s
                              \o <<EofTok>>)
    /\ result = Pending

\* Parser(tokens).parse_expression()
ParseExpressionStep ==
    /\ node.kind = "parse_expression" /\ result = Pending
    /\ result' = parse_expression(node.toks, 1, Table(node.toks))
    /\ UNCHANGED <<frames, stack, fns, heap, out, outcome, node>>

\* Parser(tokens).parse_statement()
ParseStatementStep ==
    /\ node.kind = "parse_statement" /\ result = Pending
    /\ result' = parse_statement(node.toks, 1, Table(node.toks))
    /\ UNCHANGED <<frames, stack, fns, heap, out, outcome, node>>

\* Parser(tokens).parse()
ParseStep ==
    /\ node.kind = "parse" /\ result = Pending
    /\ result' = parse(node.toks)
    /\ UNCHANGED <<frames, stack, fns, heap, out, outcome, node>>

NextParse == ParseExpressionStep \/ ParseStatementStep \/ ParseStep

SpecParse == InitParse /\ [][NextParse]_vars

(***************************** display form *********************************)
\* Evaluator._format_value on a scalar
FormatScalar(v, fs) ==
    CASE v.tag = "none" -> <<"n", "o", "n", "e">>
      [] v.tag = "bool" -> IF v.n = 1 THEN <<"t", "r", "u", "e">>
                           ELSE <<"f", "a", "l", "s", "e">>
      [] OTHER -> PyScalarStr(v, fs)

\* Evaluator._format_value: the text say prints for a value
FormatValue(v, h, fs) ==
    CASE v.tag = "list" ->
           <<"[">> \o JoinChars([i \in 1..Len(h[v.n].items) |->
                                   FormatScalar(h[v.n].items[i], fs)], <<",", " ">>) \o <<"]">>
      [] v.tag = "map" ->
           <<"{">> \o JoinChars([i \in 1..Len(h[v.n].items) |->
                                   FormatScalar(h[v.n].keys[i], fs) \o <<":", " ">>
                                   \o FormatScalar(h[v.n].items[i], fs)], <<",", " ">>) \o <<"}">>
      [] OTHER -> FormatScalar(v, fs)

(***************************** claims ***************************************)
ShortCircuits(op, left, h) ==
    \/ op = "and" /\ ~PyBool(left, h)
    \/ op = "or" /\ PyBool(left, h)

\* C1: `a and b` with a falsy, `a or b` with a truthy: b is not evaluated, so
\* the store after the statement is the store after a alone and no error of b
\* ends the run.
CE_C1 ==
    [][\A op \in LogicOps, lx \in OperandExprs, rx \in OperandExprs :
          (/\ Running
           /\ eval_BinOpNode(op, lx, rx)
           /\ Eval(lx, cur, store).res.kind = "value"
           /\ ShortCircuits(op, Eval(lx, cur, store).res.val, Eval(lx, cur, store).st.heap))
          => /\ Store(frames', fns', heap', out') = Eval(lx, cur, store).st
             /\ outcome' = "running"]_vars

\* C2: a break or continue with no enclosing loop unwinds to the top-level
\* driver and is reported there as a RuntimeError_.
CE_C2 ==
    (node.kind \in {"Break", "Continue"} /\ outcome # "running")
    => (stack = <<>> /\ outcome = "RuntimeError_")

\* C3: the evaluation of a node ends in a value or in one of the language's
\* error kinds, never in a host exception.
CE_C3 == result.kind \in {"pending", "value", "RuntimeError_", "LexerError", "ParseError"}

IsZero(v) == IsNum(v) /\ v.n = 0

\* C4: a / b and a % b with b zero raise RuntimeError_ for every numeric a.
CE_C4 ==
    (/\ node.kind = "BinOp" /\ node.op \in {"/", "%"}
     /\ IsNum(node.left) /\ IsZero(node.right)
     /\ result # Pending)
    => result.kind = "RuntimeError_"

\* the environment k parent links away from e, 0 past the root
RECURSIVE Ancestor(_, _, _)
Ancestor(fr, e, k) ==
    IF e = 0 \/ k = 0 THEN e ELSE Ancestor(fr, fr[e].parent, k - 1)

\* the first environment on the parent chain of e that binds name, 0 if none
NearestBinder(fr, e, name) ==
    LET hops == {k \in 0..Len(fr) : /\ Ancestor(fr, e, k) # 0
                                    /\ fr[Ancestor(fr, e, k)].vars[name] # Unbound}
    IN IF hops = {} THEN 0
       ELSE Ancestor(fr, e, CHOOSE k \in hops : \A j \in hops : k <= j)

\* what a read of name in environment e sees: the binding of the nearest binder
Sees(fr, e, name) ==
    IF NearestBinder(fr, e, name) = 0 THEN Unbound
    ELSE fr[NearestBinder(fr, e, name)].vars[name]

OnStack(e) == \E i \in 1..Len(stack) : stack[i].env = e

\* C5: a function value captures the environment its fn / lambda was evaluated
\* in; every call runs in a new environment whose parent is that captured
\* environment, so the callee sees exactly what the captured environment sees
\* (a name bound only in the caller's frame is not visible), also when the
\* captured environment's own call has returned.
T_C5 ==
    /\ node.kind = "FunctionDef" => fns[node.left.n].env = node.env
    /\ (node.kind = "Assign" /\ node.left.tag = "lambda") => fns[node.left.n].env = node.env
    /\ \A i \in 1..Len(stack) :
          stack[i].kind = "call" => frames[stack[i].env].parent = fns[stack[i].fn].env
    /\ (node.kind = "FunctionCall" /\ node.at # 0) =>
          /\ frames[node.at].parent = fns[node.left.n].env
          /\ \A nm \in Names :
                frames[node.at].vars[nm] = Unbound =>
                   Sees(frames, node.at, nm) = Sees(frames, fns[node.left.n].env, nm)

\* C5 happens: a call made from an environment other than the captured one,
\* after the captured environment's call returned, reads a binding of it.
W_C5 ==
    /\ node.kind = "FunctionCall" /\ node.at # 0
    /\ fns[node.left.n].env # 1
    /\ fns[node.left.n].env # node.env
    /\ ~OnStack(fns[node.left.n].env)
    /\ frames[fns[node.left.n].env].vars["x"] # Unbound
    /\ frames[node.at].vars["x"] = Unbound
    /\ Sees(frames, node.at, "x") = frames[fns[node.left.n].env].vars["x"]

\* a step that ends an assignment statement: eval_AssignNode on a value that
\* evaluated at once, or the return of the call whose value it binds
Assigning(nd) ==
    \/ nd.kind = "Assign"
    \/ nd.kind \in {"Return", "FunctionEnd"} /\ nd.name # ""

\* C6: an assignment binds the name to the value in the frame the statement
\* is evaluated in and changes no other binding of any frame.
T_C6 ==
    [][Assigning(node') =>
          /\ node'.kind = "Assign" => node'.env = cur
          /\ IF result'.kind = "value"
             THEN frames' = [frames EXCEPT ![node'.env].vars[node'.name] = result'.val]
             ELSE frames' = frames]_vars

\* C6 happens: an assignment in a call frame whose parent binds the same name
\* to another value, which the parent keeps.
W_C6 ==
    /\ node.kind = "Assign" /\ result.kind = "value"
    /\ frames[node.env].parent # 0
    /\ frames[node.env].vars[node.name] = result.val
    /\ frames[frames[node.env].parent].vars[node.name] \notin {Unbound, result.val}

\* C7: a compound assignment reads the nearest binding on the chain and writes
\* the result into the current frame only; a name bound nowhere is a
\* RuntimeError_ that creates no binding.
T_C7 ==
    [][node'.kind = "CompoundAssign" =>
          LET b == NearestBinder(frames, cur, node'.name)
          IN /\ node'.env = cur
             /\ node'.at = b
             /\ IF b = 0
                THEN /\ result'.kind = "RuntimeError_"
                     /\ outcome' = "RuntimeError_"
                     /\ frames' = frames
                ELSE /\ node'.left = frames[b].vars[node'.name]
                     /\ (node'.op = "+" /\ node'.left.tag = "int" /\ node'.right.tag = "int")
                           => result' = RetVal(IntV(node'.left.n + node'.right.n))
                     /\ IF result'.kind = "value"
                        THEN frames' = [frames EXCEPT ![cur].vars[node'.name] = result'.val]
                        ELSE frames' = frames]_vars

\* C7 happens: the name was read from an ancestor frame, which keeps its
\* binding, and the current frame holds the new value.
W_C7 ==
    /\ node.kind = "CompoundAssign" /\ result.kind = "value"
    /\ node.at \notin {0, node.env}
    /\ frames[node.at].vars[node.name] = node.left
    /\ frames[node.env].vars[node.name] = result.val
    /\ result.val # node.left

BlockKinds == {"if", "while"}

\* C8 as stated: a block runs in a new environment frame, so no name is first
\* bound in the enclosing frame by the statements of an if / while body.
CE_C8 ==
    /\ \A i \in 2..Len(stack) :
          stack[i].kind \in BlockKinds => stack[i].env # stack[i - 1].env
    /\ node.kind \in {"BlockEnd", "LoopExit"} => node.left.n = 0

\* C8 amended: only a function call makes an environment; the block of an if /
\* while body runs in the environment of the enclosing statement, an
\* assignment in it binds the name in that environment, and the binding stays
\* when the block has finished.
T_C8 ==
    /\ [](/\ \A i \in 2..Len(stack) :
                stack[i].kind \in BlockKinds => stack[i].env = stack[i - 1].env
          /\ \A i \in 1..Len(stack) :
                /\ stack[i].kind = "run" => stack[i].env = 1
                /\ stack[i].kind = "call" => \A j \in 1..Len(stack) :
                                                j # i /\ stack[j].kind \in {"run", "call"}
                                                   => stack[j].env # stack[i].env)
    /\ [][/\ node'.kind \in {"If", "While", "BlockEnd", "LoopExit"} => frames' = frames
          /\ (node'.kind = "Assign" /\ result'.kind = "value") =>
                frames' = [frames EXCEPT ![cur].vars[node'.name] = result'.val]]_vars

\* C8 happens: a block that first bound x has finished, and x is bound in the
\* frame of the enclosing statement.
W_C8 ==
    /\ node.kind \in {"BlockEnd", "LoopExit"}
    /\ node.left.n > 0
    /\ frames[node.env].vars["x"] = IntV(1)
    /\ outcome = "running" /\ stack[Len(stack)].env = node.env

\* C9: l[i] on a list of length n returns the element for 0 <= i < n and is a
\* RuntimeError_ for every other integer i.
CE_C9 ==
    (/\ node.kind = "IndexGet" /\ node.left.tag = "list" /\ node.right.tag = "int"
     /\ result # Pending)
    => IF 0 <= node.right.n /\ node.right.n < Len(heap[node.left.n].items)
       THEN result = RetVal(heap[node.left.n].items[node.right.n + 1])
       ELSE result.kind = "RuntimeError_"

\* C10: indexing a target that is neither a list nor a map is a RuntimeError_
\* for every index.
CE_C10 ==
    (/\ node.kind = "IndexGet" /\ node.left.tag \notin {"list", "map"}
     /\ result # Pending)
    => result.kind = "RuntimeError_"

\* the values a for-range is to bind in order: start, start + |step|, ... up
\* to and including end, or with reverse start, start - |step|, ... down to
\* and including end
RangeCount(start, end, step, reverse) ==
    IF reverse
    THEN (IF start < end THEN 0 ELSE ((start - end) \div Abs(step)) + 1)
    ELSE (IF start > end THEN 0 ELSE ((end - start) \div Abs(step)) + 1)

RangeExpected(start, end, step, reverse) ==
    [i \in 1..RangeCount(start, end, step, reverse) |->
        IntV(IF reverse THEN start - (i - 1) * Abs(step) ELSE start + (i - 1) * Abs(step))]

\* C11: a for-range over integers with a step other than 0 binds its variable
\* to start, start +- |step|, ... in that order, both endpoints inclusive:
\* the statement binds the first value (or ends at once when there is none),
\* each later iteration binds the next one, and the loop ends by itself only
\* when every value was bound.
T_C11 ==
    [][/\ (/\ node'.kind = "ForRange"
           /\ node'.left.tag = "int" /\ node'.right.tag = "int"
           /\ node'.step.tag = "int" /\ node'.step.n # 0) =>
             LET exp == RangeExpected(node'.left.n, node'.right.n, node'.step.n,
                                      node'.op = "reverse")
             IN IF exp = <<>>
                THEN stack' = stack /\ frames' = frames /\ result' = RetVal(NoneV)
                ELSE /\ Len(stack') = Len(stack) + 1
                     /\ stack'[Len(stack')].kind = "for"
                     /\ stack'[Len(stack')].done = <<exp[1]>>
                     /\ stack'[Len(stack')].done \o stack'[Len(stack')].rng = exp
                     /\ frames' = [frames EXCEPT ![cur].vars[node'.name] = exp[1]]
       /\ node'.kind = "ForStep" =>
             /\ stack[Len(stack)].rng # <<>>
             /\ frames' = [frames EXCEPT ![cur].vars[node'.name] = Head(stack[Len(stack)].rng)]
             /\ stack'[Len(stack')].done = Append(stack[Len(stack)].done,
                                                  Head(stack[Len(stack)].rng))
             /\ stack'[Len(stack')].done \o stack'[Len(stack')].rng
                   = stack[Len(stack)].done \o stack[Len(stack)].rng
       /\ node'.kind = "ForExit" => stack[Len(stack)].rng = <<>>]_vars

\* C11 happens: a reverse range from 2 down to 0 by 2 has bound 2, then 0, and
\* has no value left.
W_C11 ==
    /\ stack # <<>>
    /\ stack[Len(stack)].kind = "for"
    /\ node.kind = "ForStep"
    /\ stack[Len(stack)].done = <<IntV(2), IntV(0)>>
    /\ stack[Len(stack)].rng = <<>>
    /\ frames[stack[Len(stack)].env].vars["x"] = IntV(0)

\* C12: a for-range whose step is 0 raises RuntimeError_ and its body is not
\* evaluated.
CE_C12 ==
    (/\ node.kind = "ForRange"
     /\ IsIntOrFloat(node.left) /\ IsIntOrFloat(node.right)
     /\ IsNum(node.step) /\ node.step.n = 0)
    => (result.kind = "RuntimeError_" /\ outcome = "RuntimeError_" /\ stack = <<>>)

\* C13: + with a string operand concatenates the display forms of the two
\* operands, the text say would print for each.
CE_C13 ==
    (/\ node.kind = "BinOp" /\ node.op = "+"
     /\ (node.left.tag = "str" \/ node.right.tag = "str")
     /\ result # Pending)
    => result = RetVal(StrV(FormatValue(node.left, heap, fns)
                            \o FormatValue(node.right, heap, fns)))

\* C14: module.name with no argument list yields the value bound to name in
\* the module's environment and calls nothing.
CE_C14 ==
    (/\ node.kind = "MethodCall" /\ node.left.tag = "module"
     /\ node.step.n = 0 /\ node.right # NoneV)
    => (result = RetVal(node.right) /\ node.at = 0)

\* the positions of the key spelled name in a map of the heap
KeyAt(m, name) == {i \in 1..Len(m.keys) : m.keys[i] = StrV(NameChars(name))}

\* the names of the map methods
MapMethods == {"keys", "values", "length", "has"}

\* C15: m.name with no arguments on a map returns the value stored under the
\* string key name, also for a key spelled like a map method, and is a
\* RuntimeError_ when name is neither a key nor a map method.
CE_C15 ==
    (/\ node.kind = "MethodCall" /\ node.left.tag = "map" /\ node.step.n = 0)
    => IF KeyAt(heap[node.left.n], node.op) # {}
       THEN \E i \in KeyAt(heap[node.left.n], node.op) :
               result = RetVal(heap[node.left.n].items[i])
       ELSE node.op \notin MapMethods => result.kind = "RuntimeError_"

\* C16: a runtime error carries the line and the column (both >= 1) of the
\* construct that raised it, and the failed run exits with code 1.
CE_C16 ==
    outcome = "RuntimeError_"
    => (result.line >= 1 /\ result.column >= 1 /\ ExitCode = 1)

\* the number of parameters of a function value; the host callables of the
\* math module modelled take one argument
Arity(v) == IF v.tag = "native" THEN 1 ELSE Len(fns[v.n].params)

\* C17: a call of a function value with the wrong number of arguments is a
\* RuntimeError_ and the body is not evaluated, for user functions, lambdas
\* and the native functions of a module.
CE_C17 ==
    (/\ node.kind = "MethodCall"
     /\ node.right.tag \in {"fn", "lambda", "native"}
     /\ node.step.n # Arity(node.right))
    => (result.kind = "RuntimeError_" /\ outcome = "RuntimeError_" /\ node.at = 0)

\* the string literal opened at the start of the source is never closed: the
\* source is a quote followed by characters other than that quote and, for a
\* double quote, no interpolation
OpenString(src) ==
    /\ Len(src) >= 1
    /\ src[1] \in {"\"", "'"}
    /\ \A i \in 2..Len(src) : src[i] \notin {src[1], "{"}

\* C18: tokenize returns a token sequence whose last token, and only that one,
\* is end-of-input, or raises LexerError; an unterminated string literal, also
\* one that ends in a backslash, raises LexerError.
CE_C18 ==
    (node.kind = "Tokenize" /\ result # Pending)
    => /\ \/ result.kind = "LexerError"
          \/ /\ result.kind = "value"
             /\ result.fresh # <<>>
             /\ \A i \in 1..Len(result.fresh) :
                   (result.fresh[i] = "EOF") <=> (i = Len(result.fresh))
       /\ OpenString(node.left.s) => result.kind = "LexerError"

\* C19 as stated: the parent chain of every environment reaches the global
\* environment.
CE_C19 ==
    \A e \in 1..Len(frames) : \E k \in 0..Len(frames) : Ancestor(frames, e, k) = 1

\* C19 amended: the environment graph is a forest without cycles. An
\* environment's parent is an older environment and never changes; a new
\* environment is made by use, as a root of its own (the global environment
\* of the module's evaluator), or by a call, as a child of the environment the
\* function captured; so every parent chain ends, at the global environment
\* or at a module's environment.
T_C19 ==
    /\ [](/\ frames[1].parent = 0
          /\ \A e \in 1..Len(frames) : frames[e].parent \in 0..(e - 1))
    /\ [][/\ Len(frames') >= Len(frames)
          /\ \A e \in 1..Len(frames) : frames'[e].parent = frames[e].parent
          /\ Len(frames') > Len(frames) =>
                /\ Len(frames') = Len(frames) + 1
                /\ node'.kind \in {"Use", "MethodCall"}
                /\ node'.kind = "Use" => frames'[Len(frames')].parent = 0
                /\ node'.kind = "MethodCall" =>
                      /\ node'.at = Len(frames')
                      /\ frames'[Len(frames')].parent = fns'[node'.right.n].env]_vars

\* C19 happens: a call environment whose parent chain ends at a module's
\* environment, not at the global environment.
W_C19 ==
    /\ node.kind = "MethodCall" /\ node.at # 0
    /\ frames[node.at].parent \notin {0, 1}
    /\ frames[frames[node.at].parent].parent = 0
    /\ \A k \in 0..Len(frames) : Ancestor(frames, node.at, k) # 1

\* the session is at the prompt: no line is being evaluated and it has not ended
AtPrompt == outcome \notin {"running", "bye"}

\* every line is evaluated in the one global environment as the lines before
\* left it, also when they failed; a line that fails keeps the bindings made
\* before the error; a failing line does not end the session
SessionGoesOn ==
    /\ [](/\ Len(frames) >= 1
          /\ \A i \in 1..Len(stack) : stack[i].kind = "run" => (i = 1 /\ stack[i].env = 1)
          /\ AtPrompt => (stack = <<>> /\ ENABLED (\E c \in ReplChoices : repl(c[1], c[2], c[3]))))
    /\ [][/\ node'.kind = "Input" => (frames' = frames /\ fns' = fns /\ heap' = heap)
          /\ (outcome = "running" /\ outcome' \notin {"running", "ok"}) =>
                (outcome' # "bye" /\ frames' = frames)
          /\ (outcome # "bye" /\ outcome' = "bye") => (AtPrompt /\ node'.kind = "Input")]_vars

\* C20 as stated: the lines share one global environment, a failing line never
\* ends the session, and only exit, quit or end of input ends it.
CE_C20 ==
    /\ SessionGoesOn
    /\ [][(outcome # "bye" /\ outcome' = "bye") =>
             node'.op \in {"exit", "quit", "EOFError"}]_vars

\* C20 amended: the lines share one global environment, a failing line (lexer,
\* parse or runtime error, keyboard interrupt or stack overflow while the line
\* runs) never ends the session, and the session ends only at the prompt, by
\* exit, quit, end of input or a keyboard interrupt at the prompt.
T_C20 ==
    /\ SessionGoesOn
    /\ [][(outcome # "bye" /\ outcome' = "bye") =>
             node'.op \in {"exit", "quit", "EOFError", "KeyboardInterrupt"}]_vars

\* C20 happens: a line is read after a line that ended in a runtime error, and
\* the x that line bound before its error is bound in the global environment.
W_C20 ==
    /\ node.kind = "Input" /\ node.op = "line" /\ node.name = "RuntimeError_"
    /\ outcome = "running"
    /\ frames[1].vars["x"] = IntV(1)
    /\ stack = <<Ctx("run", 1, 0, "")>>

\* C21: l.push(v) appends v and a l.pop() that follows returns v and leaves l
\* with the contents it had before the push; pop returns and removes the last
\* element; pop on an empty list is a RuntimeError_ that leaves it empty.
T_C21 ==
    [][(node'.kind = "MethodCall" /\ node'.left.tag = "list") =>
          LET l == node'.left.n
              last == heap[l].items[Len(heap[l].items)]
              front == SubSeq(heap[l].items, 1, Len(heap[l].items) - 1)
          IN /\ (node'.op = "push" /\ node'.step.n = 1) =>
                   /\ result' = RetVal(node'.left)
                   /\ heap' = [heap EXCEPT ![l].items = Append(heap[l].items, node'.right)]
                   /\ LET d == MethodOther(node'.left, "pop", <<>>,
                                           Store(frames', fns', heap', out'))
                      IN d.res = RetVal(node'.right) /\ d.st.heap = heap
             /\ node'.op = "pop" =>
                   /\ IF heap[l].items = <<>>
                      THEN /\ result'.kind = "RuntimeError_"
                           /\ outcome' = "RuntimeError_"
                           /\ heap' = heap
                      ELSE /\ result' = RetVal(last)
                           /\ heap' = [heap EXCEPT ![l].items = front]
                   /\ (/\ node.kind = "MethodCall" /\ node.op = "push"
                       /\ node.left = node'.left /\ result.kind = "value") =>
                         /\ result' = RetVal(node.right)
                         /\ Append(heap'[l].items, node.right) = heap[l].items]_vars

\* C21 happens: a pop returned the 1 that a push had put after the 1 the list
\* still holds (the list literals of SpecList hold no two 1s).
W_C21 ==
    /\ node.kind = "MethodCall" /\ node.op = "pop" /\ node.left.tag = "list"
    /\ result = RetVal(IntV(1))
    /\ heap[node.left.n].items = <<IntV(1)>>
    /\ node.name = ""

\* the methods that change the list they are called on
ListMutators == {"push", "pop", "sort", "reverse"}

\* the contents a list has after one of the mutating methods
Mutated(items, op, arg) ==
    CASE op = "push" -> Append(items, arg)
      [] op = "pop" -> SubSeq(items, 1, Len(items) - 1)
      [] op = "sort" -> PySort(items)
      [] OTHER -> ListReverse(items)

\* C22: lists are aliased, not copied. A call binds the parameter to the very
\* list the caller's name is bound to and copies nothing, as does name = name;
\* push, pop, sort, reverse and index-set through any name change that one list
\* in place and no binding, so every name bound to it, in the caller's frame
\* too, reads the new contents; the return of the call changes neither the
\* heap nor a binding.
T_C22 ==
    [][/\ (node'.kind = "FunctionCall" /\ node'.at # 0) =>
             /\ heap' = heap
             /\ Sees(frames, cur, "x").tag = "list" =>
                   frames'[node'.at].vars["x"] = Sees(frames, cur, "x")
             /\ \A e \in 1..Len(frames) : frames'[e] = frames[e]
       /\ (node'.kind = "Assign" /\ result'.kind = "value" /\ Len(heap') = Len(heap)) =>
             /\ heap' = heap
             /\ frames'[cur].vars[node'.name] = Sees(frames, cur, "x")
       /\ (/\ node'.kind = "MethodCall" /\ node'.left.tag = "list"
           /\ node'.op \in ListMutators /\ result'.kind = "value") =>
             /\ frames' = frames
             /\ heap' = [heap EXCEPT ![node'.left.n].items =
                            Mutated(heap[node'.left.n].items, node'.op, node'.right)]
             /\ \A e \in 1..Len(frames), nm \in Names :
                   frames[e].vars[nm] = node'.left =>
                      heap'[frames'[e].vars[nm].n].items =
                         Mutated(heap[node'.left.n].items, node'.op, node'.right)
       /\ (node'.kind = "IndexSet" /\ node'.left.tag = "list" /\ result'.kind = "value") =>
             /\ frames' = frames
             /\ SeqGet(heap[node'.left.n].items, node'.step.n).ok
             /\ heap' = [heap EXCEPT ![node'.left.n].items[
                            SeqGet(heap[node'.left.n].items, node'.step.n).at] = node'.right]
       /\ node'.kind = "FunctionEnd" => (heap' = heap /\ frames' = frames)]_vars

\* C22 happens: inside a call the list was changed through the parameter, a
\* second list exists and is not the one changed, and the caller's own x in
\* the global frame is bound to the changed list.
W_C22 ==
    /\ node.kind \in {"MethodCall", "IndexSet"} /\ result.kind = "value"
    /\ node.left.tag = "list"
    /\ Len(stack) = 2 /\ stack[2].kind = "call" /\ node.env = stack[2].env
    /\ frames[node.env].vars["x"] = node.left
    /\ frames[1].vars["x"] = node.left
    /\ Len(heap) = 2
    /\ heap[node.left.n].items \notin {<<>>, <<IntV(1), IntV(0)>>}

\* The reading of a token list by the precedence table alone, without the
\* parser: level 1 is or, 2 and, 3 not, 4 comparison, 5 additive,
\* 6 multiplicative, 7 power, 8 unary minus, 9 postfix and atoms.
PrecedenceTable ==
    <<{"or"}, {"and"}, {"not"}, {"==", "!=", "<", ">", "<=", ">="}, {"+", "-"},
      {"*", "/", "%"}, {"**"}, {"-"}>>
GroupingError == <<"Error">>
OperandEnd(tok) == tok.type \in {"INT", "IDENTIFIER", "RPAREN", "RBRACKET"}
IsOperator(tok, lv) ==
    tok.type \notin {"INT", "IDENTIFIER", "FSTRING"} /\ tok.value \in PrecedenceTable[lv]

\* how many brackets opened in i..k-1 are still open at k
Depth(toks, i, k) ==
    Cardinality({m \in i..(k - 1) : toks[m].type \in {"LPAREN", "LBRACKET"}})
    - Cardinality({m \in i..(k - 1) : toks[m].type \in {"RPAREN", "RBRACKET"}})

\* the operators of level lv of i..j outside brackets that follow an operand
Splits(toks, i, j, lv) ==
    {k \in (i + 1)..(j - 1) :
        IsOperator(toks[k], lv) /\ Depth(toks, i, k) = 0 /\ OperandEnd(toks[k - 1])}

Join(l, op, r) ==
    IF l = GroupingError \/ r = GroupingError THEN GroupingError
    ELSE <<"BinOp", l, op, r>>
Prefix(op, x) == IF x = GroupingError THEN GroupingError ELSE <<"UnaryOp", op, x>>
Indexed(name, x) ==
    IF x = GroupingError THEN GroupingError
    ELSE <<"IndexGet", <<"Identifier", name>>, x>>

\* i..j is one bracketed group whose opening bracket is at o
Enclosed(toks, o, j) == \A k \in (o + 1)..j : Depth(toks, o, k) >= 1

RECURSIVE Grouping(_, _, _, _)
Grouping(toks, i, j, lv) ==
    IF i > j THEN GroupingError
    ELSE IF lv \in {1, 2, 4, 5, 6}
    THEN \* left-associative: the last operator of the level is the root
         IF Splits(toks, i, j, lv) = {} THEN Grouping(toks, i, j, lv + 1)
         ELSE LET k == CHOOSE m \in Splits(toks, i, j, lv) :
                          \A n \in Splits(toks, i, j, lv) : n <= m
              IN Join(Grouping(toks, i, k - 1, lv), toks[k].value,
                      Grouping(toks, k + 1, j, lv + 1))
    ELSE IF lv = 7
    THEN \* right-associative: the first ** is the root
         IF Splits(toks, i, j, lv) = {} THEN Grouping(toks, i, j, lv + 1)
         ELSE LET k == CHOOSE m \in Splits(toks, i, j, lv) :
                          \A n \in Splits(toks, i, j, lv) : m <= n
              IN Join(Grouping(toks, i, k - 1, lv + 1), toks[k].value,
                      Grouping(toks, k + 1, j, lv))
    ELSE IF lv \in {3, 8}
    THEN IF IsOperator(toks[i], lv)
         THEN Prefix(toks[i].value, Grouping(toks, i + 1, j, lv))
         ELSE Grouping(toks, i, j, lv + 1)
    ELSE IF i = j /\ toks[i].type = "INT" THEN <<"Number", toks[i].value>>
    ELSE IF toks[i].type = "LPAREN" /\ toks[j].type = "RPAREN" /\ Enclosed(toks, i, j - 1)
    THEN Grouping(toks, i + 1, j - 1, 1)
    ELSE IF /\ j >= i + 3 /\ toks[i].type = "IDENTIFIER" /\ toks[i + 1].type = "LBRACKET"
            /\ toks[j].type = "RBRACKET" /\ Enclosed(toks, i + 1, j - 1)
    THEN Indexed(toks[i].value, Grouping(toks, i + 2, j - 1, 1))
    ELSE GroupingError

\* the value of an expression of numbers and operators
NumeralValue(v) == CASE v = "2" -> 2 [] v = "3" -> 3 [] v = "4" -> 4 [] OTHER -> 1
RECURSIVE EvalAst(_)
EvalAst(ast) ==
    CASE ast[1] = "Number" -> IntV(NumeralValue(ast[2]))
      [] ast[1] = "BinOp" -> BinOpValue(ast[3], EvalAst(ast[2]), EvalAst(ast[4]), <<>>, <<>>).val
      [] ast[1] = "UnaryOp" -> UnaryOpValue(ast[2], EvalAst(ast[3]), <<>>).val

Source_2_plus_3_times_4 ==
    <<Tok("INT", "2"), Tok("PLUS", "+"), Tok("INT", "3"), Tok("MUL", "*"), Tok("INT", "4"),
      EofTok>>
Source_2_pow_3_pow_2 ==
    <<Tok("INT", "2"), Tok("POW", "**"), Tok("INT", "3"), Tok("POW", "**"), Tok("INT", "2"),
      EofTok>>
Source_minus_2_pow_2 ==
    <<Tok("MINUS", "-"), Tok("INT", "2"), Tok("POW", "**"), Tok("INT", "2"), EofTok>>

\* C23: an expression is grouped by the precedence table or < and < not <
\* comparison < additive < multiplicative < power < unary minus < postfix:
\* whenever the table gives the token list a reading, parse_expression
\* succeeds, stops at the end of input and returns exactly that reading, with
\* ** grouped to the right and every other binary level to the left; and when
\* parse_expression reads the whole list, its tree is the table's reading. So
\* 2 + 3 * 4 evaluates to 14, 2 ** 3 ** 2 to 512, and -2 ** 2 is (-2) ** 2 = 4.
T_C23 ==
    (node.kind = "parse_expression" /\ result # Pending) =>
        LET toks == node.toks
            reading == Grouping(toks, 1, Len(toks) - 1, 1)
        IN /\ reading # GroupingError =>
                 /\ result.kind = "value" /\ result.pos = Len(toks)
                 /\ result.ast = reading
           /\ (result.kind = "value" /\ result.pos = Len(toks)) => result.ast = reading
           /\ toks = Source_2_plus_3_times_4 => EvalAst(result.ast) = IntV(14)
           /\ toks = Source_2_pow_3_pow_2 => EvalAst(result.ast) = IntV(512)
           /\ toks = Source_minus_2_pow_2 =>
                 /\ result.ast = <<"BinOp", <<"UnaryOp", "-", <<"Number", "2">>>>, "**",
                                   <<"Number", "2">>>>
                 /\ EvalAst(result.ast) = IntV(4)

\* C23 happens: 2 ** 3 ** 2 was parsed with the second ** under the first
W_C23 ==
    /\ node.kind = "parse_expression" /\ node.toks = Source_2_pow_3_pow_2
    /\ result.kind = "value"
    /\ result.ast[1] = "BinOp" /\ result.ast[4][1] = "BinOp"

\* C25: for a statement that begins name [ expr ], parse_statement returns an
\* IndexSet of the name, the index and the value exactly when the token after
\* the closing ] is = (and the value parses; its error is the statement's
\* error otherwise). With any other token after the ] the outcome, tree and
\* final cursor both, is the outcome of parse_expression at the statement's
\* first token, and is no IndexSet.
T_C25 ==
    (/\ node.kind = "parse_statement" /\ result # Pending
     /\ node.toks[1].type = "IDENTIFIER" /\ node.toks[2].type = "LBRACKET") =>
        LET toks == node.toks
            tab == Table(toks)
            index == parse_expression(toks, 3, tab)
            after == Advance(toks, index.pos)
            value == parse_expression(toks, Advance(toks, after), tab)
        IN (index.kind = "value" /\ toks[index.pos].type = "RBRACKET") =>
              /\ toks[after].type = "EQ" =>
                    /\ result.kind = value.kind
                    /\ result.pos = value.pos
                    /\ result.kind = "value" =>
                          result.ast = <<"IndexSet", <<"Identifier", toks[1].value>>,
                                         index.ast, value.ast>>
              /\ toks[after].type # "EQ" =>
                    /\ result = parse_expression(toks, 1, tab)
                    /\ result.kind = "value" => result.ast[1] # "IndexSet"
              /\ (result.kind = "value" /\ result.ast[1] = "IndexSet") <=>
                    (toks[after].type = "EQ" /\ value.kind = "value")

\* C25 happens: x[1] ** 1 was parsed as a statement; the token after the ] is
\* no =, and the outcome is the power expression over the whole statement
W_C25 ==
    /\ node.kind = "parse_statement" /\ result.kind = "value"
    /\ Len(node.toks) = 7 /\ node.toks[4].type = "RBRACKET" /\ node.toks[5].type = "POW"
    /\ result.ast[1] = "BinOp" /\ result.ast[2][1] = "IndexGet"
    /\ result.pos = 7

\* Parser.parse came to an end on the token list and its cursor is on a token
\* of the list: no loop of the parser went round without consuming a token
ParserProgress ==
    (node.kind = "parse" /\ result # Pending) =>
        /\ result.kind # "stuck"
        /\ result.pos \in 1..Len(node.toks)

\* C30: on every token list that ends in EOF, Parser.parse terminates,
\* returning a Block or raising ParseError; no loop goes round without
\* consuming a token, and the cursor never passes the EOF token.
CE_C30 ==
    /\ ParserProgress
    /\ (node.kind = "parse" /\ result # Pending) =>
          /\ result.kind \in {"value", "ParseError"}
          /\ result.kind = "value" => result.ast[1] = "Block"

\* C24: a break ends exactly the innermost loop enclosing it in its function
\* body and a continue goes on with that loop: every context below it, the
\* outer loops among them, stays as it was, and nothing is raised. A return
\* is caught by no loop: it ends the innermost call, with every loop and
\* block of the function body above it, and the call yields the returned value.
T_C24 ==
    [][LET k == Innermost(stack, LoopKinds)
           c == Innermost(stack, {"call"})
       IN /\ (node'.kind = "Break" /\ k > c) =>
                /\ stack' = SubSeq(stack, 1, k - 1)
                /\ result' = Pending /\ outcome' = "running"
                /\ frames' = frames
          /\ (node'.kind = "Continue" /\ k > c) =>
                /\ stack' = SubSeq(stack, 1, k)
                /\ result' = Pending /\ outcome' = "running"
                /\ frames' = frames
          /\ (node'.kind = "Return" /\ c > 0) =>
                /\ stack' = SubSeq(stack, 1, c - 1)
                /\ result' = RetVal(IntV(1)) /\ outcome' = "running"
                /\ stack[c].dest # "" =>
                      frames' = EnvAssign(frames, stack[c - 1].env, stack[c].dest, IntV(1))
                /\ stack[c].dest = "" => frames' = frames]_vars

\* C24 happens: inside a function body the inner of two nested loops was
\* ended by break, and the outer loop is still running
W_C24 ==
    /\ node.kind = "Break" /\ outcome = "running"
    /\ Len(stack) = 3 /\ stack[2].kind = "call" /\ stack[3].kind = "while"

\* C26: a break or continue raised in a function body outside any loop of
\* that body, while the call was made from inside a loop, is not stopped by
\* the call: break ends the caller's loop and continue goes on with it, the
\* call's context is gone and the call yields no value, so an assignment of
\* the call's value binds nothing.
T_C26 ==
    [][LET k == Innermost(stack, LoopKinds)
           c == Innermost(stack, {"call"})
       IN (node'.kind \in {"Break", "Continue"} /\ c > k /\ k > 0) =>
             /\ stack' = SubSeq(stack, 1, IF node'.kind = "Break" THEN k - 1 ELSE k)
             /\ \A i \in 1..Len(stack') : stack'[i].kind # "call" \/ i < k
             /\ result' = Pending /\ outcome' = "running"
             /\ frames' = frames]_vars

\* C26 happens: a break was raised in the environment of a call, the program
\* is still running, and the call's context is no longer on the stack
W_C26 ==
    /\ node.kind = "Break" /\ outcome = "running"
    /\ node.env > 1
    /\ \A i \in 1..Len(stack) : stack[i].env # node.env

\* C27: a function value holds the environment it was defined in by
\* reference: the function's record never changes and names the very frame
\* the fn / lambda was evaluated in, no copy of it; the body of a called
\* function sees, for every name, the binding the defining environment has
\* at the time of the call, and a called lambda yields the value its body's
\* name has there at that time, so an assignment made in the defining frame
\* after the definition is seen; and a statement
\* evaluated in a call's environment changes no frame but the call's own, so
\* the defining frame keeps its bindings.
T_C27 ==
    [][/\ Len(fns') >= Len(fns) /\ \A f \in 1..Len(fns) : fns'[f] = fns[f]
       /\ Len(fns') > Len(fns) => fns'[Len(fns')].env = cur
       /\ (node'.kind = "FunctionCall" /\ node'.at # 0) =>
             /\ node'.at = Len(frames) + 1
             /\ node'.left.tag = "fn" =>
                   \A nm \in Names :
                      Sees(frames', node'.at, nm) = Sees(frames, fns[node'.left.n].env, nm)
             /\ (node'.left.tag = "lambda" /\ result'.kind = "value") =>
                   result'.val = Sees(frames, fns[node'.left.n].env, fns[node'.left.n].body)
       /\ (frames[cur].parent # 0 /\ node'.kind \notin {"Return", "FunctionEnd"}) =>
             \A e \in 1..Len(frames) : e # cur => frames'[e] = frames[e]]_vars

\* C27 happens: the function made first is called while its defining frame
\* binds x to the lambda made second, a value that did not exist when the
\* function was defined, and the call sees that binding
W_C27 ==
    /\ node.kind = "FunctionCall" /\ node.at # 0 /\ node.left = FnV(1)
    /\ frames[fns[1].env].vars["x"] = LambdaV(2)
    /\ Sees(frames, node.at, "x") = LambdaV(2)

\* the modules that use themselves, directly or through another module, and
\* how many loads of them are under way
CyclicModules == {"s", "a", "b"}
CyclicLoads(stk) ==
    Cardinality({i \in 1..Len(stk) : stk[i].kind = "module" /\ stk[i].dest \in CyclicModules})

\* no record of modules is kept: every use of a file module below the
\* recursion limit, loaded before or being loaded or not, makes a fresh
\* environment without parent and starts the module's statements from the
\* first; the name is bound only when the last statement has run
LoadsAfresh ==
    /\ (node'.kind = "Use" /\ node'.name \in ModuleFiles /\ Loads(stack) < MaxLoads) =>
          /\ frames' = Append(frames, Environment(0))
          /\ Len(stack') = Len(stack) + 1
          /\ stack'[Len(stack')].kind = "module"
          /\ stack'[Len(stack')].env = Len(frames')
          /\ stack'[Len(stack')].rng = ModuleSource(node'.name)
          /\ result' = Pending /\ outcome' = "running"
    /\ node'.kind = "ModuleLoaded" =>
          /\ stack[Len(stack)].rng = <<>>
          /\ frames' = EnvSet(frames, stack[Len(stack) - 1].env, node'.name,
                              ModuleV(stack[Len(stack)].env))

\* C28: module loading keeps no record, and the load of a module that uses
\* itself never finishes, the nesting of its loads growing without bound: once
\* such a load is under way the nesting never shrinks and the run goes on.
CE_C28 ==
    [][/\ LoadsAfresh
       /\ CyclicLoads(stack) > 0 =>
             /\ CyclicLoads(stack') >= CyclicLoads(stack)
             /\ outcome' = "running"]_vars

\* C28 amended: module loading keeps no record; no load of a module that uses
\* itself completes, each starting another before it ends; the nesting grows
\* until the host's recursion limit is reached, and there the RecursionError
\* ends every load under way and the run, which run_source reports.
T_C28 ==
    /\ [][/\ LoadsAfresh
          /\ node'.kind = "ModuleLoaded" => node'.name \notin CyclicModules
          /\ CyclicLoads(stack') < CyclicLoads(stack) =>
                /\ Loads(stack) = MaxLoads
                /\ result' = Raise("exc", "RecursionError")
                /\ outcome' = "RecursionError" /\ stack' = <<>>]_vars
    /\ (CyclicLoads(stack) > 0) ~> (outcome = "RecursionError")

\* C28 happens: module a is being loaded inside the load of b inside the
\* load of a, each in an environment of its own
W_C28 ==
    /\ Len(stack) = 4
    /\ stack[2].kind = "module" /\ stack[2].dest = "a"
    /\ stack[3].kind = "module" /\ stack[3].dest = "b"
    /\ stack[4].kind = "module" /\ stack[4].dest = "a"
    /\ stack[2].env # stack[4].env

\* the values a for-range iterates over, those bound so far and those to come
Sequence(c) == c.done \o c.rng

\* a for-range evaluates start, end and step once, on entry: the sequence of
\* values is the range of the three values the operands had then, and no
\* later step, an assignment to the loop variable or to a variable read by
\* the bounds included, changes it; each iteration binds the next value of
\* it whatever the loop variable holds, and the loop ends when it is used up,
\* after as many iterations as it has values
RangeFixedOnEntry ==
    /\ (node'.kind = "ForRange" /\ Len(stack') > Len(stack)) =>
          LET c == stack'[Len(stack')]
              values == ForRangeValues(PyInt(node'.left).v, PyInt(node'.right).v,
                                       PyInt(node'.step).v, node'.op = "reverse")
          IN /\ c.kind = "for" /\ Len(c.done) = 1
             /\ Sequence(c) = [i \in 1..Len(values) |-> IntV(values[i])]
             /\ frames' = EnvSet(frames, cur, node'.name, Head(Sequence(c)))
    /\ \A i \in 1..Len(stack) :
          (i <= Len(stack') /\ stack[i].kind = "for") =>
             /\ stack'[i].kind = "for"
             /\ Sequence(stack'[i]) = Sequence(stack[i])
    /\ node'.kind = "Assign" => stack' = stack
    /\ node'.kind = "ForStep" =>
          LET c == stack[Len(stack)]
          IN /\ c.rng # <<>>
             /\ frames' = EnvSet(frames, cur, c.dest, Sequence(c)[Len(c.done) + 1])
             /\ stack'[Len(stack)].done = SubSeq(Sequence(c), 1, Len(c.done) + 1)
    /\ node'.kind = "ForExit" =>
          /\ stack[Len(stack)].rng = <<>>
          /\ stack' = SubSeq(stack, 1, Len(stack) - 1)
          /\ frames' = frames

\* the for statement has ended without an error
ForEnded(nd, res) ==
    \/ nd.kind = "ForExit"
    \/ nd.kind = "ForRange" /\ res.kind = "value"

\* C29: after a for-range has ended its loop variable is bound in the frame
\* the statement was evaluated in.
CE_C29 == ForEnded(node, result) => frames[node.env].vars[node.name] # Unbound

\* C29 amended: the range is fixed on entry and assignments in the body do
\* not change the values iterated, so the loop ends after as many iterations
\* as the range has values; a loop that ran at least once leaves its variable
\* bound in the frame of the statement, and a for over an empty range binds
\* nothing and leaves the variable as it was, unbound if it was unbound.
T_C29 ==
    [][/\ RangeFixedOnEntry
       /\ node'.kind = "ForExit" => frames'[node'.env].vars[node'.name] # Unbound
       /\ (node'.kind = "ForRange" /\ result'.kind = "value") => frames' = frames]_vars

\* C29 happens: in the first iteration of a for over 0, 1, 2 the body has
\* set the loop variable x to 2, the last value of the range, and the values
\* 1 and 2 are still to come
W_C29 ==
    /\ node.kind = "Assign" /\ node.name = "x" /\ result = RetVal(IntV(2))
    /\ stack[Len(stack)].kind = "for"
    /\ stack[Len(stack)].done = <<IntV(0)>>
    /\ stack[Len(stack)].rng = <<IntV(1), IntV(2)>>
    /\ frames[node.env].vars["x"] = IntV(2)

====
